---- MODULE Spec2Model ----
(***************************************************************************)
(* Model of the Slower HTTP router.                                        *)
(*                                                                         *)
(* Part I  : the continuation-based router (src/src/slower.js) with its    *)
(*           utilities (getMatchingRoute, getURLPathBody) and its          *)
(*           request/response decorators (setupRequest, setupResponse).    *)
(* Part II : the legacy router (src/lib/router.js): isSparseEqual, routes, *)
(*           setAllowedMethods, mainServerHandler.                         *)
(* Part III: static(directoryPath, mountPath) and getFiles.                *)
(* Part IV : the session addresses (normalizeAddress, setSocketLocals).    *)
(* Part V  : the template substitution of response.render.                 *)
(* Part VI : the setDynamic routes of the legacy router.                    *)
(* Part VII: the connection pool of the legacy router and close().         *)
(*                                                                         *)
(* Strings are sequences of one-character strings, so that splitting a URL *)
(* at '?' and matching a pattern are computed, not assumed.                *)
(*                                                                         *)
(* The JavaScript run-to-completion semantics is modelled with a call      *)
(* stack of handler activations, a FIFO microtask queue (resumptions of    *)
(* `await` on settled promises) and macrotasks (socket events, completed   *)
(* I/O, file stream events) that only run when the stack and the microtask *)
(* queue are empty.                                                        *)
(***************************************************************************)
EXTENDS Integers, Sequences, FiniteSets, TLC

(***************************************************************************)
(* Bounds of the model.                                                    *)
(***************************************************************************)
MaxRoutes == 2      \* number of registrations explored
MaxChunks == 1      \* number of 'data' events of one request body
MaxOps    == 2      \* number of operations the handlers of one request perform
MaxCalls  == 3      \* number of response helper calls explored on one response
MaxTail   == 3      \* length of the generated part of the strings given to isSparseEqual
MaxMiddle == 2      \* number of middlewares registered with setMiddleware
MaxAllow  == 2      \* number of setAllowedMethods calls made before start()
MaxPieces == 2      \* number of pieces a rendered template is written from
MaxFiles  == 2      \* number of regular files created under the published directory
MaxSockets == 2     \* number of connections the legacy server accepts

(***************************************************************************)
(* Strings, URLs and patterns.                                             *)
(***************************************************************************)
U_root == <<"/">>
U_a    == <<"/", "a">>
U_aq   == <<"/", "a", "?", "b">>

\* request URLs explored
Urls == {U_root, U_a, U_aq}

\* '/(.{0,})' : the catch-all pattern used by all(handler) / use(handler)
P_all == <<"/", "(", ".", "{", "0", ",", "}", ")">>
\* '/:id' : one named parameter
P_id  == <<"/", ":", "i", "d">>
\* '/a' : a literal pattern
P_a   == <<"/", "a">>

\* patterns explored by registrations
Patterns == {P_all, P_id, P_a}

\* HTTP_VERBS = http.METHODS.map(v => v.toLowerCase()), restricted to two verbs
HTTP_VERBS == {"get", "post"}

\* methods carried by requests (as node delivers them: upper case)
ReqMethods == {"GET", "POST"}

\* methods of the requests looked up in the route table: BREW is a method
\* the router has no verb for
TableMethods == ReqMethods \cup {"BREW"}

U_as == <<"/", "a", "/">>
U_ab == <<"/", "a", "/", "b">>

\* URLs of the requests looked up in the route table
TableUrls == Urls \cup {U_as, U_ab}

\* String.prototype.toLowerCase on the method names that occur
toLowerCase(m) ==
    CASE m = "GET"  -> "get"
      [] m = "POST" -> "post"
      [] m = "BREW" -> "brew"
      [] OTHER      -> m

\* index of the first occurrence of character c in s, 0 when absent
RECURSIVE IndexOfFrom(_, _, _)
IndexOfFrom(s, c, i) ==
    IF i > Len(s) THEN 0
    ELSE IF s[i] = c THEN i
    ELSE IndexOfFrom(s, c, i + 1)

IndexOf(s, c) == IndexOfFrom(s, c, 1)

\* getURLPathBody : urlPath.split('?')[0] || ''
getURLPathBody(urlPath) ==
    LET q == IndexOf(urlPath, "?")
    IN  IF q = 0 THEN urlPath ELSE SubSeq(urlPath, 1, q - 1)

(***************************************************************************)
(* path-to-regexp: match(pattern, {decode})(path).                         *)
(* The result is [ok, params]; ok = FALSE stands for the value false.      *)
(* Matching is not strict: one trailing delimiter is accepted.             *)
(* The library compares letters case-insensitively and decodes captured    *)
(* values with decodeURIComponent; the characters explored here are lower  *)
(* case and unescaped, on which both are the identity.                     *)
(***************************************************************************)
Delimiters == {"/", "#", "?"}

NoMatch == [ok |-> FALSE, params |-> <<>>]

\* path without one optional trailing delimiter, as the regexp's [\/#\?]?$
StripTrailing(p) ==
    IF Len(p) > 0 /\ p[Len(p)] \in Delimiters THEN SubSeq(p, 1, Len(p) - 1) ELSE p

HasDelimiter(s) == \E i \in 1..Len(s) : s[i] \in Delimiters

\* the compiled matcher of a pattern applied to a path
PathFn(pattern, p) ==
    IF pattern = P_all
    THEN \* ^\/(.{0,})[\/#\?]?$ ; the greedy group takes all that follows '/'
         IF Len(p) >= 1 /\ p[1] = "/"
         THEN [ok |-> TRUE, params |-> ("0" :> Tail(p))]
         ELSE NoMatch
    ELSE IF Len(pattern) >= 3 /\ pattern[1] = "/" /\ pattern[2] = ":"
    THEN \* ^\/([^\/#\?]+?)[\/#\?]?$ ; key = the name after ':'
         LET seg == IF Len(p) >= 1 THEN Tail(p) ELSE <<>>
             val == IF HasDelimiter(seg) THEN StripTrailing(seg) ELSE seg
         IN  IF Len(p) >= 2 /\ p[1] = "/" /\ Len(val) >= 1 /\ ~HasDelimiter(val)
             THEN [ok |-> TRUE, params |-> ("id" :> val)]
             ELSE NoMatch
    ELSE \* literal: ^literal[\/#\?]?$
         IF p = pattern \/ (Len(p) = Len(pattern) + 1 /\ StripTrailing(p) = pattern)
         THEN [ok |-> TRUE, params |-> <<>>]
         ELSE NoMatch

(***************************************************************************)
(* State.                                                                  *)
(***************************************************************************)
VARIABLES
    layers,     \* this.layers : verb -> ordered routes [path, handler]
    nextH,      \* identity of the next handler function registered
    req,        \* the request being served
    res,        \* its response
    streams,    \* file streams piped into the response
    acts,       \* activations of chain entries (handler invocations)
    stack,      \* call stack: indices into acts, top last
    microq,     \* microtask queue: activations to resume, head first
    log,        \* handlers invoked for the request, in order of invocation
    exhausted,  \* cycleMatching was called with an empty list
    escaped,    \* an error left the request handler uncaught
    crashed,    \* an event listener threw (uncaught exception)
    calls,      \* helper calls made on the response, in order: helper, argument,
                \* headersSent before the call, whether the call threw
    ops,        \* operations performed by the handlers of the request
    regs,       \* registration calls made, in order; index = handler identity
    lg,         \* the legacy router (src/lib/router.js) and its last request
    sp,         \* the last call of isSparseEqual: arguments and result
    fcall,      \* the last call of another pure function: name, arguments, result
    fsys        \* the files on disk and what static() and its routes did with them

vars == <<layers, nextH, req, res, streams, acts, stack, microq, log,
          exhausted, escaped, crashed, calls, ops, regs, lg, sp, fcall, fsys>>


(***************************************************************************)
(* Route table lookup (utils.getMatchingRoute).                            *)
(***************************************************************************)
\* the element built with params whatever its keys are
Built_KeepPositional(callback, params) ==
    [callback |-> callback, hasParams |-> TRUE, params |-> params]

\* one element of the list built for a matching route:
\* { callback } plus params unless the match captured the positional key '0'
Built(callback, params) ==
    IF "0" \notin DOMAIN params
    THEN [callback |-> callback, hasParams |-> TRUE,  params |-> params]
    ELSE [callback |-> callback, hasParams |-> FALSE, params |-> <<>>]

\* the list built with unshift instead of push: last registered first
RECURSIVE MatchLoop_Unshift(_, _)
MatchLoop_Unshift(routes, p) ==
    IF routes = <<>> THEN <<>>
    ELSE LET r == Head(routes)
             m == PathFn(r.path, p)
         IN  IF m.ok
             THEN MatchLoop_Unshift(Tail(routes), p) \o <<Built(r.handler, m.params)>>
             ELSE MatchLoop_Unshift(Tail(routes), p)

\* the loop over the insertion-ordered Map of one verb
RECURSIVE MatchLoop(_, _)
MatchLoop(routes, p) ==
    IF routes = <<>> THEN <<>>
    ELSE LET r == Head(routes)
             m == PathFn(r.path, p)
         IN  IF m.ok
             THEN <<Built(r.handler, m.params)>> \o MatchLoop(Tail(routes), p)
             ELSE MatchLoop(Tail(routes), p)

\* a method without a Map of its own served from the Map of another verb
getMatchingRoute_OtherVerb(url, method, lay) ==
    LET m      == toLowerCase(method)
        routes == IF m \in DOMAIN lay THEN lay[m] ELSE lay["get"]
    IN  MatchLoop(routes, getURLPathBody(url))

\* layers.get(method) || new Map(): a method without a Map has no route
getMatchingRoute(url, method, lay) ==
    LET m      == toLowerCase(method)
        routes == IF m \in DOMAIN lay THEN lay[m] ELSE <<>>
    IN  MatchLoop(routes, getURLPathBody(url))

\* a RegExp given as the path of a route: #setRoute stores the RegExp
\* itself as the key of the Map, a string is replaced by match(path)
R_a   == <<"RegExp", "^", "\\", "/", "a", "$">>
R_any == <<"RegExp", "^", "\\", "/", ".", "*", "$">>
RegExps == {R_a, R_any}

IsRegExp(path) == Len(path) >= 1 /\ path[1] = "RegExp"

\* getMatchingRoute calls every key of the verb's Map as a function:
\* pathFn(...) on a RegExp key is a TypeError (pathFn is not a function)
LookupThrows(method, lay) ==
    LET m == toLowerCase(method)
    IN  m \in DOMAIN lay /\ \E k \in DOMAIN lay[m] : IsRegExp(lay[m][k].path)

(***************************************************************************)
(* The response (http.ServerResponse) and its decorators (setupResponse).  *)
(* A helper yields [res, threw, piped]: the response after the call,       *)
(* whether the call threw synchronously, whether a file stream was piped.  *)
(***************************************************************************)
NewResponse ==
    [statusCode  |-> 200,     \* node's default
     hasCT       |-> FALSE,   \* a Content-Type header is set
     location    |-> "",      \* the Location header, "" when unset
     custom      |-> {},      \* names of the headers set through set()
     headersSent |-> FALSE,
     ended       |-> FALSE,   \* response.end() took effect
     bodies      |-> 0,       \* bodies written to the socket
     endCalls    |-> 0,       \* end() calls that took effect
     lateWrite   |-> FALSE,   \* a write was attempted after end ('error' event)
     closed      |-> FALSE,   \* the connection closed before the response ended
     writeAfterClose |-> FALSE]   \* a write was attempted after the connection closed

Outcome(r, threw, piped) == [res |-> r, threw |-> threw, piped |-> piped]

\* response.write(chunk): after end nothing is written, ERR_STREAM_WRITE_AFTER_END
Write(r) ==
    IF r.ended THEN [r EXCEPT !.lateWrite = TRUE]
    ELSE IF r.closed THEN [r EXCEPT !.writeAfterClose = TRUE]   \* nothing is sent
    ELSE [r EXCEPT !.headersSent = TRUE, !.bodies = @ + 1]

\* response.end(): a second end() is ignored
End(r) ==
    IF r.ended THEN r
    ELSE [r EXCEPT !.headersSent = TRUE, !.ended = TRUE, !.endCalls = @ + 1]

\* response.send(data)
send(r) ==
    IF ~r.hasCT /\ r.headersSent
    THEN Outcome(r, TRUE, FALSE)                 \* setHeader: ERR_HTTP_HEADERS_SENT
    ELSE Outcome(End(Write([r EXCEPT !.hasCT = TRUE])), FALSE, FALSE)

\* response.json(data)
json(r) ==
    IF r.headersSent
    THEN Outcome(r, TRUE, FALSE)                 \* setHeader: ERR_HTTP_HEADERS_SENT
    ELSE Outcome(End(Write([r EXCEPT !.hasCT = TRUE])), FALSE, FALSE)

\* the request's Referrer header and the headers of a mapping given to set
Referrer == "/from"
MappingNames == {"X-A", "X-B"}

\* response.set(header, value): header is the name of one header ("X-A") or
\* a mapping ("mapping") of the names MappingNames to their values.
\* `for (let prop of header)` on a plain object: TypeError, not iterable
set(r, header) ==
    IF header = "mapping" THEN Outcome(r, TRUE, FALSE)
    ELSE IF r.headersSent THEN Outcome(r, TRUE, FALSE)   \* ERR_HTTP_HEADERS_SENT
    ELSE Outcome([r EXCEPT !.custom = @ \cup {header}], FALSE, FALSE)

\* response.render(filename, locals); readable = readFileSync succeeds,
\* localThrows = a function-valued local throws when it is called: the
\* substitution loop has no try/catch, the error leaves render
render(r, readable, localThrows) ==
    IF ~readable \/ localThrows \/ r.headersSent
    THEN Outcome(r, TRUE, FALSE)                 \* ENOENT, the local's error or ERR_HTTP_HEADERS_SENT
    ELSE Outcome(End(Write([r EXCEPT !.hasCT = TRUE])), FALSE, FALSE)

\* response.redirect(location); location is "back", "" (absent) or a target.
\* 'request' is not bound in setupResponse: evaluating it is a ReferenceError
redirect(r, location) ==
    IF location = "back" \/ r.headersSent
    THEN Outcome(r, TRUE, FALSE)
    ELSE Outcome(End([r EXCEPT !.location = IF location = "" THEN "/" ELSE location]),
                 FALSE, FALSE)

\* response.file(filename): the stream is piped, data arrives later
file(r) ==
    IF ~r.hasCT /\ r.headersSent
    THEN Outcome(r, TRUE, FALSE)                 \* setHeader: ERR_HTTP_HEADERS_SENT
    ELSE Outcome([r EXCEPT !.hasCT = TRUE], FALSE, TRUE)

\* the calls of response helpers explored: helper and argument
HelperCalls ==
    {[helper |-> "send", arg |-> ""], [helper |-> "json", arg |-> ""],
     [helper |-> "file", arg |-> ""],
     [helper |-> "render", arg |-> "readable"], [helper |-> "render", arg |-> "missing"],
     [helper |-> "render", arg |-> "throws"],
     [helper |-> "set", arg |-> "X-A"], [helper |-> "set", arg |-> "mapping"],
     [helper |-> "redirect", arg |-> ""], [helper |-> "redirect", arg |-> "back"],
     [helper |-> "redirect", arg |-> "/x"]}

\* the calls made by the chain entries of the dispatch model
ChainCalls == {[helper |-> "send", arg |-> ""]}

CallHelper(r, c) ==
    CASE c.helper = "send"     -> send(r)
      [] c.helper = "json"     -> json(r)
      [] c.helper = "render"   -> render(r, c.arg # "missing", c.arg = "throws")
      [] c.helper = "set"      -> set(r, c.arg)
      [] c.helper = "redirect" -> redirect(r, c.arg)
      [] c.helper = "file"     -> file(r)

(***************************************************************************)
(* Initial state: the router is constructed, no route, no request yet.     *)
(***************************************************************************)
NoRequest ==
    [phase       |-> "idle",    \* idle, buffering, decorated, dispatched, failed
     method      |-> "",
     url         |-> <<>>,
     foundRoutes |-> <<>>,      \* the list computed by getMatchingRoute
     received    |-> 0,         \* chunks the socket delivered
     body        |-> <<>>,      \* request.body: chunks pushed by 'data' events
     buffer      |-> <<>>,      \* request.body.buffer once 'end' fired
     ended       |-> FALSE,     \* the 'end' event fired
     hasParams   |-> FALSE,     \* req.params is defined
     params      |-> <<>>]

\* SlowerRouter.http_methods, restricted to two methods
http_methods == {"GET", "POST"}

\* new SlowerRouter() of the legacy router: no route yet, no request served
\* the connections the legacy server may accept, one UUID each
Sockets == 1..MaxSockets

\* a socket that has not connected: state is none, open, destroyed or closed
NoSocket == [state |-> "none", emitted |-> {}, by |-> "none"]

NewRouter ==
    [routes   |-> <<>>,      \* this.routes : Route objects [path, type, callback]
     connectionpool |-> {},  \* this.connectionpool: the sockets it has a key for
     server   |-> [listening    |-> FALSE,   \* this.server accepts connections
                   closeEmitted |-> FALSE,   \* it has emitted 'close'
                   sockets      |-> [s \in Sockets |-> NoSocket]],
     closing  |-> [pc |-> "none", force |-> FALSE, instant |-> FALSE,
                   silent |-> TRUE, resolved |-> FALSE, waited |-> 0],
                             \* the call of close(): its position, options, promise
     poolFailed |-> FALSE,   \* a socket listener threw on a missing pool entry
     strictHeaders |-> FALSE,
     middleware |-> <<"noop">>,   \* this.middleware: what each callback does
     fallback |-> 0,         \* this.fallback: 0 is noop, otherwise the callback set
     started  |-> FALSE,     \* start() was called
     captured |-> [fallback |-> 0, allowedMethods |-> {},
                   blockedMethodCallback |-> "noop"],
                             \* the variables of start() closed over by mainServerHandler
     trace    |-> <<>>,      \* the steps of mainServerHandler for the request, in order
     allowedMethods |-> http_methods,
     blockedMethodCallback |-> "noop",   \* noop, or "405": writeHead(405); end()
     allowCalls |-> <<>>,    \* the lists given to setAllowedMethods, in call order
     reached  |-> "none",    \* what served the request: route, fallback or blocked
     status   |-> 0,         \* status code of the response to that request
     served   |-> FALSE,     \* mainServerHandler ran for a request
     method   |-> "",        \* req.method of that request
     url      |-> <<>>,      \* req.url of that request
     selected |-> 0]         \* callback of the route selected for it, 0: none

\* isSparseEqual has not been called
NoCall == [called |-> FALSE, str1 |-> <<>>, str2 |-> <<>>, result |-> FALSE]

\* no pure function has been called
NoFunctionCall == [fn |-> "none"]

\* an empty published tree: static() was not called, no file was opened
NoFiles ==
    [disk      |-> <<>>,     \* regular files under the directory, in readdir order
     published |-> FALSE,    \* static() was called
     directory |-> <<>>,     \* its directoryPath
     mountPath |-> <<>>,     \* its mountPath
     moduleRoot |-> <<>>,    \* path.join(__dirname, '../../') of the installed package
     snapshot  |-> <<>>,     \* the files on disk when static() was called
     files     |-> <<>>,     \* the file held by the closure of each handler made
     opened    |-> <<>>]     \* requests served: path opened and Content-Type set

Init ==
    /\ layers = [v \in HTTP_VERBS |-> <<>>]
    /\ nextH = 1
    /\ req = NoRequest
    /\ res = NewResponse
    /\ streams = [reading |-> 0, flowing |-> 0]
    /\ acts = <<>>
    /\ stack = <<>>
    /\ microq = <<>>
    /\ log = <<>>
    /\ exhausted = FALSE
    /\ escaped = FALSE
    /\ crashed = FALSE
    /\ calls = <<>>
    /\ ops = 0
    /\ regs = <<>>
    /\ lg = NewRouter
    /\ sp = NoCall
    /\ fcall = NoFunctionCall
    /\ fsys = NoFiles

(***************************************************************************)
(* Call stack helpers.                                                     *)
(***************************************************************************)
Top == stack[Len(stack)]

Running == stack # <<>> /\ acts[Top].st = "run"

\* nothing runs and no microtask is queued: the event loop takes a macrotask
LoopIdle == stack = <<>> /\ microq = <<>>

Pop(s) == SubSeq(s, 1, Len(s) - 1)

\* Control returns to the frame below the one that left the stack.  A frame
\* that called proceed() goes on; a frame that evaluated `await proceed()`
\* suspends on the returned promise, which is already settled: its
\* resumption is queued as a microtask and control returns further down.
RECURSIVE Unwind(_, _, _)
Unwind(a, s, q) ==
    IF s = <<>> THEN [acts |-> a, stack |-> s, microq |-> q]
    ELSE LET t == s[Len(s)]
         IN  IF a[t].st = "callAwait"
             THEN Unwind([a EXCEPT ![t].st = "awaitProceed"], Pop(s), Append(q, t))
             ELSE IF a[t].st = "call"
             THEN [acts |-> [a EXCEPT ![t].st = "run"], stack |-> s, microq |-> q]
             ELSE [acts |-> a, stack |-> s, microq |-> q]

\* the top frame leaves the stack with state st (done, threw, awaitIO);
\* a finished activation keeps only what the chain can still observe of it
Leave(st) ==
    LET t == Top
        a == IF st = "awaitIO" THEN [acts EXCEPT ![t].st = st]
             ELSE [acts EXCEPT ![t].st = st, ![t].rest = <<>>,
                               ![t].child = 0, ![t].resumed = FALSE]
        u == Unwind(a, Pop(stack), microq)
    IN  /\ acts' = u.acts
        /\ stack' = u.stack
        /\ microq' = u.microq

(***************************************************************************)
(* Registration: app[verb](path, handler) -> #setRoute.                    *)
(* match(path) yields a fresh function, hence a fresh Map key: the entry   *)
(* is added at the end of the verb's Map.                                  *)
(***************************************************************************)
\* the Map of a verb keyed by the pattern string instead of the compiled
\* function: a second registration of a pattern replaces the first
setRoute_KeyedByString(lay, method, path, handler) ==
    IF \E k \in DOMAIN lay[method] : lay[method][k].path = path
    THEN [lay EXCEPT ![method] =
             [k \in DOMAIN lay[method] |->
                 IF lay[method][k].path = path
                 THEN [path |-> path, handler |-> handler]
                 ELSE lay[method][k]]]
    ELSE [lay EXCEPT ![method] = Append(@, [path |-> path, handler |-> handler])]

setRoute(lay, method, path, handler) ==
    [lay EXCEPT ![method] = Append(@, [path |-> path, handler |-> handler])]

Register(verb, path) ==
    /\ nextH <= MaxRoutes
    /\ LoopIdle
    /\ layers' = setRoute(layers, verb, path, nextH)
    /\ nextH' = nextH + 1
    /\ regs' = Append(regs, [api |-> "verb", verb |-> verb, path |-> path])
    /\ UNCHANGED <<fcall, fsys, lg, sp, req, res, streams, acts, stack, microq, log,
                   exhausted, escaped, crashed, calls, ops>>

\* for (let verb of HTTP_VERBS) this.#setRoute(verb, path, handler)
RECURSIVE ForVerbs(_, _, _, _)
ForVerbs(verbs, lay, path, handler) ==
    IF verbs = {} THEN lay
    ELSE LET verb == CHOOSE v \in verbs : TRUE
         IN  ForVerbs(verbs \ {verb}, setRoute(lay, verb, path, handler), path, handler)

\* the handler registered under the first verb only
all_OneVerb(lay, path, handler) ==
    [lay EXCEPT !["get"] = Append(@, [path |-> path, handler |-> handler])]

\* app.all(path, handler); app.all(handler) passes the catch-all pattern
all(lay, path, handler) == ForVerbs(HTTP_VERBS, lay, path, handler)

\* app.all(path, handler): path-scoped middleware for every verb
RegisterAll(path) ==
    /\ nextH <= MaxRoutes
    /\ LoopIdle
    /\ layers' = all(layers, path, nextH)
    /\ nextH' = nextH + 1
    /\ regs' = Append(regs, [api |-> "all", verb |-> "*", path |-> path])
    /\ UNCHANGED <<fcall, fsys, lg, sp, req, res, streams, acts, stack, microq, log,
                   exhausted, escaped, crashed, calls, ops>>

\* app.use(handler) = app.all(handler): global middleware
RegisterUse ==
    /\ nextH <= MaxRoutes
    /\ LoopIdle
    /\ layers' = all(layers, P_all, nextH)
    /\ nextH' = nextH + 1
    /\ regs' = Append(regs, [api |-> "use", verb |-> "*", path |-> P_all])
    /\ UNCHANGED <<fcall, fsys, lg, sp, req, res, streams, acts, stack, microq, log,
                   exhausted, escaped, crashed, calls, ops>>

(***************************************************************************)
(* cycleMatching(routes), called by `caller` (0: the request handler).     *)
(* With an empty list it returns at once; otherwise it sets req.params     *)
(* when the element has params and calls the element's callback with a     *)
(* continuation closed over routes.slice(1).  The call is not awaited and  *)
(* is not inside a try block.                                              *)
(***************************************************************************)
NewAct(route, rest, caller) ==
    [h       |-> route.callback,   \* the handler function
     rest    |-> rest,             \* routes.slice(1) held by its continuation
     st      |-> "run",
     parent  |-> caller,
     child   |-> 0,                \* entry started by its last `await proceed()`
     resumed |-> FALSE]            \* it went on after `await proceed()`

cycleMatching(routes, r, a, s) ==
    IF routes = <<>>
    THEN /\ exhausted' = TRUE
         /\ req' = r
         /\ LET u == Unwind(a, s, microq)
            IN  /\ acts' = u.acts
                /\ stack' = u.stack
                /\ microq' = u.microq
         /\ UNCHANGED log
    ELSE LET route  == routes[1]
             caller == IF s = <<>> THEN 0 ELSE s[Len(s)]
             n      == Len(a) + 1
             a2     == IF caller = 0 THEN a
                       ELSE [a EXCEPT ![caller].child =
                                 IF a[caller].st = "callAwait" THEN n ELSE 0]
         IN  /\ req' = IF route.hasParams
                       THEN [r EXCEPT !.hasParams = TRUE, !.params = route.params]
                       ELSE r
             /\ acts' = Append(a2, NewAct(route, Tail(routes), caller))
             /\ stack' = Append(s, n)
             /\ log' = Append(log, route.callback)
             /\ UNCHANGED <<microq, exhausted>>

(***************************************************************************)
(* requestHandler, first part: the 'request' event.                        *)
(* The match list is computed (line 58), then setupRequest starts          *)
(* buffering the body and the handler suspends on its promise (line 62).   *)
(***************************************************************************)
RequestArrives(method, url) ==
    /\ req.phase = "idle"
    /\ LoopIdle
    /\ IF LookupThrows(method, layers)
       THEN \* the TypeError leaves requestHandler: its promise rejects, unhandled
            /\ req' = [NoRequest EXCEPT !.phase = "failed", !.method = method, !.url = url]
            /\ escaped' = TRUE
       ELSE /\ req' = [NoRequest EXCEPT
                         !.phase       = "buffering",
                         !.method      = method,
                         !.url         = url,
                         !.foundRoutes = getMatchingRoute(url, method, layers)]
            /\ UNCHANGED escaped
    /\ UNCHANGED <<fcall, fsys, layers, nextH, regs, lg, sp, res, streams, acts, stack, microq, log,
                   exhausted, crashed, calls, ops>>

\* request.on('data', chunk => request.body.push(chunk))
RequestData ==
    /\ req.phase = "buffering"
    /\ LoopIdle
    /\ req.received < MaxChunks
    /\ req' = [req EXCEPT !.received = @ + 1, !.body = Append(@, req.received + 1)]
    /\ UNCHANGED <<fcall, fsys, layers, nextH, regs, lg, sp, res, streams, acts, stack, microq, log,
                   exhausted, escaped, crashed, calls, ops>>

\* request.on('end', ...): body becomes {buffer, text, json}, promise resolved
RequestEnd ==
    /\ req.phase = "buffering"
    /\ LoopIdle
    /\ req' = [req EXCEPT !.phase = "decorated", !.ended = TRUE, !.buffer = req.body]
    /\ UNCHANGED <<fcall, fsys, layers, nextH, regs, lg, sp, res, streams, acts, stack, microq, log,
                   exhausted, escaped, crashed, calls, ops>>

\* request.on('error' / 'timeout', ...): the listener calls `reject`, which
\* the promise executor does not bind: the listener throws a ReferenceError
\* and the promise of setupRequest never settles
RequestError ==
    /\ req.phase = "buffering"
    /\ LoopIdle
    /\ req' = [req EXCEPT !.phase = "failed"]
    /\ crashed' = TRUE
    /\ UNCHANGED <<fcall, fsys, layers, nextH, regs, lg, sp, res, streams, acts, stack, microq, log,
                   exhausted, escaped, calls, ops>>

(***************************************************************************)
(* requestHandler, second part: `await setupRequest(req)` has settled.     *)
(* setupResponse decorates res and cycleMatching(layers) starts the chain. *)
(***************************************************************************)
\* a missing `await`: the handler goes on while the body is still buffered
SetupRequestSettled_NoAwait(r) == r.phase \in {"buffering", "decorated"}

SetupRequestSettled(r) == r.phase = "decorated"

\* the list looked up again after the await instead of the list of line 58
ChainList_Relookup(r) == getMatchingRoute(r.url, r.method, layers)

\* the chain started one element too far
ChainList_Skip(r) == IF r.foundRoutes = <<>> THEN <<>> ELSE Tail(r.foundRoutes)

\* `let layers = foundRoutes`: the list handed to cycleMatching (line 72)
ChainList(r) == r.foundRoutes

Dispatch ==
    /\ SetupRequestSettled(req)
    /\ req.phase \notin {"idle", "dispatched", "failed"}
    /\ stack = <<>>
    /\ cycleMatching(ChainList(req), [req EXCEPT !.phase = "dispatched"], acts, stack)
    /\ UNCHANGED <<fcall, fsys, layers, nextH, regs, lg, sp, res, streams, escaped, crashed, calls, ops>>

(***************************************************************************)
(* Steps of the running chain entry (the frame on top of the stack).       *)
(* A handler is application code: what it does next is drawn from the      *)
(* operations below; the handlers of a request perform at most MaxOps.     *)
(***************************************************************************)
CanOp == Running /\ ops < MaxOps

\* the handler calls its continuation: async () => cycleMatching(routes.slice(1));
\* awaited = the handler evaluates `await proceed()` (or returns the promise
\* from an async function) instead of dropping the returned promise
OpProceed(awaited) ==
    /\ CanOp
    /\ ops' = ops + 1
    /\ LET t == Top
           a == [acts EXCEPT ![t].st = IF awaited THEN "callAwait" ELSE "call",
                             ![t].child = 0,
                             ![t].resumed = FALSE]
       IN  cycleMatching(acts[t].rest, req, a, stack)
    /\ UNCHANGED <<fcall, fsys, layers, nextH, regs, lg, sp, res, streams, escaped, crashed, calls>>

\* the handler calls a finalizing helper of the response; when the helper
\* throws, the handler goes on (it may catch the error, or throw next)
OpFinalize(c) ==
    /\ CanOp
    /\ LET o == CallHelper(res, c)
       IN  /\ res' = o.res
           /\ streams' = IF o.piped THEN [streams EXCEPT !.reading = @ + 1]
                         ELSE streams
    /\ ops' = ops + 1
    /\ UNCHANGED <<fcall, fsys, layers, nextH, regs, lg, sp, req, acts, stack, microq, log,
                   exhausted, escaped, crashed, calls>>

\* the handler awaits an asynchronous operation of its own (timer, I/O)
OpAwaitIO ==
    /\ CanOp
    /\ ops' = ops + 1
    /\ Leave("awaitIO")
    /\ UNCHANGED <<fcall, fsys, layers, nextH, regs, lg, sp, req, res, streams, log,
                   exhausted, escaped, crashed, calls>>

\* the handler returns (or its async body completes)
OpReturn ==
    /\ Running
    /\ Leave("done")
    /\ UNCHANGED <<fcall, fsys, layers, nextH, regs, lg, sp, req, res, streams, log,
                   exhausted, escaped, crashed, calls, ops>>

\* the handler throws (or its promise rejects).  route(...) is called
\* outside any try block and its result is dropped; the promise of
\* cycleMatching is dropped by the request handler: nothing handles the error
OpThrow ==
    /\ Running
    /\ Leave("threw")
    /\ escaped' = TRUE
    /\ UNCHANGED <<fcall, fsys, layers, nextH, regs, lg, sp, req, res, streams, log, exhausted, crashed, calls, ops>>

(***************************************************************************)
(* The event loop.                                                         *)
(***************************************************************************)
\* microtask: an entry suspended on `await proceed()` goes on
ResumeMicro ==
    /\ stack = <<>>
    /\ microq # <<>>
    /\ LET t == Head(microq)
       IN  /\ acts' = [acts EXCEPT ![t].st = "run", ![t].resumed = TRUE]
           /\ stack' = <<t>>
    /\ microq' = Tail(microq)
    /\ UNCHANGED <<fcall, fsys, layers, nextH, regs, lg, sp, req, res, streams, log,
                   exhausted, escaped, crashed, calls, ops>>

\* macrotask: the asynchronous operation awaited by entry a completes
IOComplete(a) ==
    /\ LoopIdle
    /\ a \in DOMAIN acts
    /\ acts[a].st = "awaitIO"
    /\ acts' = [acts EXCEPT ![a].st = "run"]
    /\ stack' = <<a>>
    /\ UNCHANGED <<fcall, fsys, layers, nextH, regs, lg, sp, req, res, streams, microq, log,
                   exhausted, escaped, crashed, calls, ops>>

Next ==
    \/ \E v \in HTTP_VERBS, p \in Patterns : Register(v, p)
    \/ \E m \in ReqMethods, u \in Urls : RequestArrives(m, u)
    \/ RequestData
    \/ RequestEnd
    \/ RequestError
    \/ Dispatch
    \/ \E aw \in BOOLEAN : OpProceed(aw)
    \/ \E c \in ChainCalls : OpFinalize(c)
    \/ OpAwaitIO
    \/ OpReturn
    \/ OpThrow
    \/ ResumeMicro
    \/ \E a \in DOMAIN acts : IOComplete(a)

Spec == Init /\ [][Next]_vars

(***************************************************************************)
(* The response helpers on one response: any sequence of helper calls,     *)
(* interleaved with the events of the file streams piped into it.          *)
(***************************************************************************)
\* application code calls a finalizing helper
HelperCall(c) ==
    /\ Len(calls) < MaxCalls
    /\ LET o == CallHelper(res, c)
       IN  /\ res' = o.res
           /\ streams' = IF o.piped THEN [streams EXCEPT !.reading = @ + 1]
                         ELSE streams
    /\ calls' = Append(calls, [helper |-> c.helper, arg |-> c.arg,
                                sent   |-> res.headersSent,     \* before the call
                                threw  |-> CallHelper(res, c).threw])
    /\ UNCHANGED <<fcall, fsys, layers, nextH, regs, lg, sp, req, acts, stack, microq, log,
                   exhausted, escaped, crashed, ops>>

\* macrotask: a piped file stream emits its data: pipe calls response.write
StreamData ==
    /\ LoopIdle
    /\ streams.reading > 0
    /\ streams' = [reading |-> streams.reading - 1, flowing |-> streams.flowing + 1]
    /\ res' = Write(res)
    /\ UNCHANGED <<fcall, fsys, layers, nextH, regs, lg, sp, req, acts, stack, microq, log,
                   exhausted, escaped, crashed, calls, ops>>

\* macrotask: a piped file stream emits 'end': pipe calls response.end
StreamEnd ==
    /\ LoopIdle
    /\ streams.flowing > 0
    /\ streams' = [streams EXCEPT !.flowing = @ - 1]
    /\ res' = End(res)
    /\ UNCHANGED <<fcall, fsys, layers, nextH, regs, lg, sp, req, acts, stack, microq, log,
                   exhausted, escaped, crashed, calls, ops>>

NextRes ==
    \/ \E c \in HelperCalls : HelperCall(c)
    \/ StreamData
    \/ StreamEnd

(***************************************************************************)
(* The connection of the request closes while the request is served.       *)
(* Neither requestHandler nor the decorators listen to 'close' on the      *)
(* request, the response or the socket: the chain goes on unchanged.       *)
(***************************************************************************)
\* macrotask: the client disconnects before the response is ended
ConnectionClose ==
    /\ LoopIdle
    /\ req.phase \in {"buffering", "dispatched"}
    /\ ~res.closed
    /\ ~res.ended
    /\ res' = [res EXCEPT !.closed = TRUE]
    /\ UNCHANGED <<fcall, fsys, layers, nextH, regs, lg, sp, req, streams, acts, stack,
                   microq, log, exhausted, escaped, crashed, calls, ops>>

NextClose ==
    \/ Next
    \/ ConnectionClose

SpecClose == Init /\ [][NextClose]_vars

SpecRes == Init /\ [][NextRes]_vars

(***************************************************************************)
(* The route table: any sequence of registrations through the verb         *)
(* methods, all and use, then the lookup made for a request (line 58).     *)
(***************************************************************************)
NextTable ==
    \/ \E v \in HTTP_VERBS, p \in Patterns : req.phase = "idle" /\ Register(v, p)
    \/ \E p \in Patterns : req.phase = "idle" /\ RegisterAll(p)
    \/ req.phase = "idle" /\ RegisterUse
    \/ \E m \in TableMethods, u \in TableUrls : RequestArrives(m, u)

SpecTable == Init /\ [][NextTable]_vars

(***************************************************************************)
(* The route table with RegExp paths: registrations with a string pattern  *)
(* or a RegExp, then the lookup made for a request.                        *)
(***************************************************************************)
NextRegExp ==
    \/ \E v \in HTTP_VERBS, p \in {P_a, P_all} \cup RegExps :
          req.phase = "idle" /\ Register(v, p)
    \/ \E m \in ReqMethods, u \in TableUrls : RequestArrives(m, u)

SpecRegExp == Init /\ [][NextRegExp]_vars

(***************************************************************************)
(* Part II : the legacy router (src/lib/router.js) and its pattern matcher *)
(*           isSparseEqual (src/lib/utils.js).                             *)
(*                                                                         *)
(* isSparseEqual(str1, str2): in both strings '{?}' is replaced by '.' and *)
(* '{*}' by '.*'; the first string is then compiled as the regular         *)
(* expression ^str1$ and tested on the second.  The regular expressions    *)
(* that arise from the patterns explored are made of literal characters,   *)
(* '.' and '*'; they are matched here as the RegExp engine matches them.   *)
(***************************************************************************)
T_one == <<"{", "?", "}">>      \* '{?}'
T_any == <<"{", "*", "}">>      \* '{*}'

\* String.prototype.replace with a global regular expression that matches
\* the literal token: every occurrence, left to right
RECURSIVE ReplaceAll(_, _, _)
ReplaceAll(s, token, by) ==
    IF Len(s) < Len(token) THEN s
    ELSE IF SubSeq(s, 1, Len(token)) = token
    THEN by \o ReplaceAll(SubSeq(s, Len(token) + 1, Len(s)), token, by)
    ELSE <<Head(s)>> \o ReplaceAll(Tail(s), token, by)

\* '{?}' taken for any number of characters
ReplaceTokens_OneAsAny(s) ==
    ReplaceAll(ReplaceAll(s, T_one, <<".", "*">>), T_any, <<".", "*">>)

\* '{*}' taken for one character
ReplaceTokens_AnyAsOne(s) ==
    ReplaceAll(ReplaceAll(s, T_one, <<".">>), T_any, <<".">>)

\* str.replace(/{\?}/g, '.').replace(/{\*}/g, '.*')
ReplaceTokens(s) ==
    ReplaceAll(ReplaceAll(s, T_one, <<".">>), T_any, <<".", "*">>)

\* characters '.' does not match (no s flag): the line terminators
LineTerminators == {"\n", "\r"}

\* '.' stopping at the path separator
AtomMatch_WithinSegment(a, c) ==
    IF a = "." THEN c \notin LineTerminators \cup {"/"} ELSE a = c

\* one atom of the regular expression against one character
AtomMatch(a, c) ==
    IF a = "." THEN c \notin LineTerminators ELSE a = c

\* the whole of s matches the regular expression re (anchored by ^ and $)
RECURSIVE RegexMatch(_, _)
RegexMatch(re, s) ==
    IF re = <<>> THEN s = <<>>
    ELSE IF Len(re) >= 2 /\ re[2] = "*"
    THEN \/ RegexMatch(SubSeq(re, 3, Len(re)), s)
         \/ (s # <<>> /\ AtomMatch(re[1], s[1]) /\ RegexMatch(re, Tail(s)))
    ELSE s # <<>> /\ AtomMatch(re[1], s[1]) /\ RegexMatch(Tail(re), Tail(s))

isSparseEqual(str1, str2) ==
    LET string1 == ReplaceTokens(str1)
        string2 == ReplaceTokens(str2)
    IN  RegexMatch(string1, string2)

\* the patterns given as str1
P_item  == <<"/", "i", "t", "e", "m", "/", "{", "?", "}">>
P_files == <<"/", "f", "i", "l", "e", "s", "/", "{", "*", "}">>
P_css   == <<"/", "s", "t", "y", "l", "e", ".", "c", "s", "s">>
P_item5 == <<"/", "i", "t", "e", "m", "/", "5">>

SparsePatterns == {P_item, P_files, P_css, P_item5}

\* the strings given as str2: '/item/' or '/files/' followed by up to
\* MaxTail characters, four longer strings, and two strings that hold a token
ItemPrefix  == <<"/", "i", "t", "e", "m", "/">>
FilesPrefix == <<"/", "f", "i", "l", "e", "s", "/">>

SparseChars == {"5", "6", "/", "\n"}

Tails == UNION {[1..n -> SparseChars] : n \in 0..MaxTail}

U_item42   == ItemPrefix \o <<"4", "2">>
U_filesabc == FilesPrefix \o <<"a", "/", "b", "/", "c">>
U_css      == P_css
U_styleX   == <<"/", "s", "t", "y", "l", "e", "X", "c", "s", "s">>
U_itemOne  == ItemPrefix \o T_one
U_itemAny  == ItemPrefix \o T_any

SparsePaths ==
    {ItemPrefix \o t : t \in Tails} \cup {FilesPrefix \o t : t \in Tails}
        \cup {U_item42, U_filesabc, U_css, U_styleX, U_itemOne, U_itemAny}

\* a call isSparseEqual(str1, str2); one call is explored per behaviour
SparseCall(str1, str2) ==
    /\ ~sp.called
    /\ sp' = [called |-> TRUE, str1 |-> str1, str2 |-> str2,
              result |-> isSparseEqual(str1, str2)]
    /\ UNCHANGED <<fcall, fsys, layers, nextH, regs, lg, req, res, streams, acts, stack, microq,
                   log, exhausted, escaped, crashed, calls, ops>>

NextSparse == \E str1 \in SparsePatterns, str2 \in SparsePaths : SparseCall(str1, str2)

SpecSparse == Init /\ [][NextSparse]_vars

(***************************************************************************)
(* The legacy router: setRoute and the request listener mainServerHandler. *)
(* The middleware list and the fallback are those of the constructor       *)
(* (noop), which leave the response open.                                  *)
(***************************************************************************)
\* String.prototype.toUpperCase on the method names that occur
toUpperCase(t) ==
    CASE t = "get"  -> "GET"
      [] t = "post" -> "POST"
      [] OTHER      -> t

\* new Route(path, type, callback); slugify leaves a word of letters as it is
Route(path, type, callback) ==
    [path     |-> IF Len(path) >= 1 /\ path[1] = "/" THEN path ELSE <<"/">> \o path,
     type     |-> IF toUpperCase(type) \in http_methods THEN toUpperCase(type) ELSE "null",
     callback |-> callback]

\* types and paths given to setRoute, methods and URLs of the requests
LegacyTypes   == {"GET", "post"}
LegacyPaths   == SparsePatterns
LegacyMethods == {"GET", "POST"}
LegacyUrls    == {U_css, U_styleX, P_item5, U_item42, U_filesabc, ItemPrefix}

\* app.setRoute(path, type, callback): the callback is identified by its rank
LegacySetRoute(path, type) ==
    /\ ~lg.served
    /\ Len(lg.routes) < MaxRoutes
    /\ lg' = [lg EXCEPT !.routes = Append(@, Route(path, type, Len(@) + 1))]
    /\ UNCHANGED <<fcall, fsys, layers, nextH, regs, sp, req, res, streams, acts, stack, microq,
                   log, exhausted, escaped, crashed, calls, ops>>

\* the last route of the request's method that matches, not the first
RECURSIVE SelectFrom_Last(_, _, _, _)
SelectFrom_Last(routes, i, method, url) ==
    IF i > Len(routes) THEN 0
    ELSE LET later == SelectFrom_Last(routes, i + 1, method, url)
         IN  IF later # 0 THEN later
             ELSE IF /\ routes[i].type = method
                     /\ (routes[i].path = url \/ isSparseEqual(routes[i].path, url))
             THEN routes[i].callback
             ELSE 0

\* the loop of mainServerHandler over routes: the first route of the
\* request's method whose path equals the URL or is sparse-equal to it;
\* 0 when the loop ends without a route (the fallback is called)
RECURSIVE SelectFrom(_, _, _, _)
SelectFrom(routes, i, method, url) ==
    IF i > Len(routes) THEN 0
    ELSE IF /\ routes[i].type = method
            /\ (routes[i].path = url \/ isSparseEqual(routes[i].path, url))
    THEN routes[i].callback
    ELSE SelectFrom(routes, i + 1, method, url)

\* app.start(): the handler closes over the fallback, the allowed methods
\* and the blocked-method callback of that moment; routes and middleware
\* are the router's own arrays, which later registrations push to
start ==
    /\ ~lg.started
    /\ lg' = [lg EXCEPT !.started  = TRUE,
                        !.server.listening = TRUE,
                        !.captured = [fallback |-> lg.fallback,
                                      allowedMethods |-> lg.allowedMethods,
                                      blockedMethodCallback |-> lg.blockedMethodCallback]]
    /\ UNCHANGED <<fcall, fsys, layers, nextH, regs, sp, req, res, streams, acts, stack, microq,
                   log, exhausted, escaped, crashed, calls, ops>>

\* the properties of the http.Server, the object `this` is bound to when the
\* server calls its request listener
HttpServerProperties == {"listening", "timeout", "maxHeadersCount"}

\* !!this.strictHeaders evaluated in mainServerHandler
ServerStrictHeaders == "strictHeaders" \in HttpServerProperties

\* the middlewares called in reverse order
RECURSIVE MiddlewareRun_LastFirst(_, _)
MiddlewareRun_LastFirst(middle, i) ==
    IF i > Len(middle) THEN [called |-> <<>>, outcome |-> "through"]
    ELSE LET k == Len(middle) + 1 - i
         IN  IF middle[k] = "ends" THEN [called |-> <<k>>, outcome |-> "ended"]
             ELSE IF middle[k] = "throws" THEN [called |-> <<k>>, outcome |-> "threw"]
             ELSE LET rest == MiddlewareRun_LastFirst(middle, i + 1)
                  IN  [called |-> <<k>> \o rest.called, outcome |-> rest.outcome]

\* for (i < middle.length) { rr = middle[i](req, res); if (res.writableEnded) return; }
\* inside try: a middleware that throws (or rejects) ends the loop in catch.
\* Yields the middlewares called, in order, and how the loop ended
RECURSIVE MiddlewareRun(_, _)
MiddlewareRun(middle, i) ==
    IF i > Len(middle) THEN [called |-> <<>>, outcome |-> "through"]
    ELSE IF middle[i] = "ends" THEN [called |-> <<i>>, outcome |-> "ended"]
    ELSE IF middle[i] = "throws" THEN [called |-> <<i>>, outcome |-> "threw"]
    ELSE LET rest == MiddlewareRun(middle, i + 1)
         IN  [called |-> <<i>> \o rest.called, outcome |-> rest.outcome]

\* the fallback called by the handler, read from the router at each request
ServerFallback_Live(r) == r.fallback

\* the fallback called by the handler: the variable `fallback` of start()
ServerFallback(r) == r.captured.fallback

\* the allowed methods tested by the handler: the array that was
\* this.allowedMethods when start() ran (setAllowedMethods assigns a new one)
ServerAllowed(r) == r.captured.allowedMethods

\* mainServerHandler(req, res) on router r: the steps taken, what served the
\* request, the route callback selected and the status of the response
Handle(r, method, url) ==
    LET mw      == MiddlewareRun(r.middleware, 1)
        mwSteps == [k \in 1..Len(mw.called) |-> [step |-> "middleware", id |-> mw.called[k]]]
        sel     == SelectFrom(r.routes, 1, method, url)
    IN  IF ServerStrictHeaders
        THEN \* setSocketSecurityHeaders(req): req.setHeader is not a function
             [trace |-> <<[step |-> "security", id |-> 0]>>,
              reached |-> "error", selected |-> 0, status |-> 0]
        ELSE IF mw.outcome = "ended"
        THEN [trace |-> mwSteps, reached |-> "middleware", selected |-> 0, status |-> 200]
        ELSE IF mw.outcome = "threw"
        THEN [trace |-> mwSteps, reached |-> "error", selected |-> 0, status |-> 0]
        ELSE IF method \in ServerAllowed(r) /\ sel # 0
        THEN [trace |-> Append(mwSteps, [step |-> "route", id |-> sel]),
              reached |-> "route", selected |-> sel, status |-> 200]
        ELSE IF method \in ServerAllowed(r)
        THEN [trace |-> Append(mwSteps, [step |-> "fallback", id |-> ServerFallback(r)]),
              reached |-> "fallback", selected |-> 0, status |-> 200]
        ELSE \* blockedMethodCallback(req, res); if (!res.writableEnded) res.end()
             LET code == IF r.captured.blockedMethodCallback = "405" THEN 405 ELSE 200
             IN  [trace |-> Append(mwSteps, [step |-> "blocked", id |-> code]),
                  reached |-> "blocked", selected |-> 0, status |-> code]

\* mainServerHandler(req, res) for one request of the started server
mainServerHandler(method, url) ==
    /\ lg.started
    /\ ~lg.served
    /\ LET h == Handle(lg, method, url)
       IN  lg' = [lg EXCEPT
                    !.served   = TRUE,
                    !.method   = method,
                    !.url      = url,
                    !.trace    = h.trace,
                    !.selected = h.selected,
                    !.reached  = h.reached,
                    !.status   = h.status]
    /\ UNCHANGED <<fcall, fsys, layers, nextH, regs, sp, req, res, streams, acts, stack, microq,
                   log, exhausted, escaped, crashed, calls, ops>>

NextLegacy ==
    \/ \E p \in LegacyPaths, t \in LegacyTypes : ~lg.started /\ LegacySetRoute(p, t)
    \/ start
    \/ \E m \in LegacyMethods, u \in LegacyUrls : mainServerHandler(m, u)

SpecLegacy == Init /\ [][NextLegacy]_vars

(***************************************************************************)
(* The allowed methods of the legacy router: setAllowedMethods calls and   *)
(* registrations before start(), then one request.                         *)
(***************************************************************************)
\* the lists given to setAllowedMethods
AllowedLists ==
    {<<>>, <<"GET">>, <<"get">>, <<"*">>, <<"POST", "BREW">>}

\* the methods of a list that are members of SlowerRouter.http_methods
ValidVerbs(methods) == {methods[i] : i \in DOMAIN methods} \cap http_methods

\* app.setAllowedMethods(methods); ['*'] == '*' holds by coercion
setAllowedMethods(methods) ==
    /\ ~lg.served
    /\ Len(lg.allowCalls) < MaxAllow
    /\ lg' = IF Len(methods) = 0 \/ methods = <<"*">>
             THEN [lg EXCEPT !.allowedMethods = http_methods,
                             !.allowCalls = Append(@, methods)]
             ELSE [lg EXCEPT !.allowedMethods = ValidVerbs(methods),
                             !.blockedMethodCallback = "405",
                             !.allowCalls = Append(@, methods)]
    /\ UNCHANGED <<fcall, fsys, layers, nextH, regs, sp, req, res, streams, acts, stack, microq,
                   log, exhausted, escaped, crashed, calls, ops>>

NextAllowed ==
    \/ \E l \in AllowedLists : ~lg.started /\ setAllowedMethods(l)
    \/ \E t \in LegacyTypes : ~lg.started /\ LegacySetRoute(P_css, t)
    \/ start
    \/ \E m \in LegacyMethods, u \in {U_css, U_styleX} : mainServerHandler(m, u)

SpecAllowed == Init /\ [][NextAllowed]_vars

(***************************************************************************)
(* The server of the legacy router: strict headers, middlewares, routes    *)
(* and allowed methods configured before or after start(), then a request. *)
(***************************************************************************)
\* app.enableStrictHeaders()
enableStrictHeaders ==
    /\ ~lg.served
    /\ ~lg.strictHeaders
    /\ lg' = [lg EXCEPT !.strictHeaders = TRUE]
    /\ UNCHANGED <<fcall, fsys, layers, nextH, regs, sp, req, res, streams, acts, stack, microq,
                   log, exhausted, escaped, crashed, calls, ops>>

\* app.disableStrictHeaders()
disableStrictHeaders ==
    /\ ~lg.served
    /\ lg.strictHeaders
    /\ lg' = [lg EXCEPT !.strictHeaders = FALSE]
    /\ UNCHANGED <<fcall, fsys, layers, nextH, regs, sp, req, res, streams, acts, stack, microq,
                   log, exhausted, escaped, crashed, calls, ops>>

\* what a middleware callback does: returns, ends the response, or throws
MiddlewareKinds == {"pass", "ends", "throws"}

\* app.setMiddleware(callback); the constructor put noop at index 1
setMiddleware(callback) ==
    /\ ~lg.served
    /\ Len(lg.middleware) <= MaxMiddle
    /\ lg' = [lg EXCEPT !.middleware = Append(@, callback)]
    /\ UNCHANGED <<fcall, fsys, layers, nextH, regs, sp, req, res, streams, acts, stack, microq,
                   log, exhausted, escaped, crashed, calls, ops>>

NextServer ==
    \/ enableStrictHeaders
    \/ disableStrictHeaders
    \/ \E k \in MiddlewareKinds : setMiddleware(k)
    \/ \E t \in LegacyTypes : LegacySetRoute(P_css, t)
    \/ ~lg.started /\ setAllowedMethods(<<"GET">>)
    \/ start
    \/ \E m \in LegacyMethods, u \in {U_css, U_styleX} : mainServerHandler(m, u)

SpecServer == Init /\ [][NextServer]_vars

(***************************************************************************)
(* Configuration calls made before and after start(), then a request.      *)
(***************************************************************************)
\* the callbacks given to setFallback; FallbackFile is the function fb that
\* setFallbackFile builds
Fallbacks == {1, 2}
FallbackFile == 3

\* app.setFallback(callback)
setFallback(callback) ==
    /\ ~lg.served
    /\ lg.fallback # callback
    /\ lg' = [lg EXCEPT !.fallback = callback]
    /\ UNCHANGED <<fcall, fsys, layers, nextH, regs, sp, req, res, streams, acts, stack, microq,
                   log, exhausted, escaped, crashed, calls, ops>>

\* app.setFallbackFile(file, mime, replacementData): this.fallback = function fb
setFallbackFile ==
    /\ ~lg.served
    /\ lg.fallback # FallbackFile
    /\ lg' = [lg EXCEPT !.fallback = FallbackFile]
    /\ UNCHANGED <<fcall, fsys, layers, nextH, regs, sp, req, res, streams, acts, stack, microq,
                   log, exhausted, escaped, crashed, calls, ops>>

NextStart ==
    \/ \E f \in Fallbacks : setFallback(f)
    \/ setFallbackFile
    \/ \E l \in {<<>>, <<"GET">>} : setAllowedMethods(l)
    \/ LegacySetRoute(P_css, "GET")
    \/ \E k \in {"pass", "ends"} : setMiddleware(k)
    \/ start
    \/ \E m \in LegacyMethods, u \in {U_css, U_styleX} : mainServerHandler(m, u)

SpecStart == Init /\ [][NextStart]_vars

(***************************************************************************)
(* Part III : static(directoryPath, mountPath) of the continuation-based   *)
(*            router, with the string operations it is made of.            *)
(***************************************************************************)
\* String.prototype.split(c) for a one-character separator
RECURSIVE Split(_, _)
Split(s, c) ==
    LET i == IndexOf(s, c)
    IN  IF i = 0 THEN <<s>>
        ELSE <<SubSeq(s, 1, i - 1)>> \o Split(SubSeq(s, i + 1, Len(s)), c)

\* Array.prototype.join(c)
RECURSIVE JoinWith(_, _)
JoinWith(pieces, c) ==
    IF pieces = <<>> THEN <<>>
    ELSE IF Len(pieces) = 1 THEN pieces[1]
    ELSE pieces[1] \o <<c>> \o JoinWith(Tail(pieces), c)

\* Array.prototype.slice(1)
SliceOne(a) == IF a = <<>> THEN <<>> ELSE Tail(a)

\* String.prototype.replace(pat, by) with a string pattern: first occurrence
RECURSIVE ReplaceFirst(_, _, _)
ReplaceFirst(s, pat, by) ==
    IF Len(s) < Len(pat) THEN s
    ELSE IF SubSeq(s, 1, Len(pat)) = pat
    THEN by \o SubSeq(s, Len(pat) + 1, Len(s))
    ELSE <<Head(s)>> \o ReplaceFirst(Tail(s), pat, by)

IsSegment(x) == x # <<>> /\ x # <<".">>

\* path.join(a, b): the parts joined by '/' and normalized; '.' segments
\* and empty segments vanish (no part explored holds a '..' segment)
join(a, b) ==
    LET p    == a \o <<"/">> \o b
        body == JoinWith(SelectSeq(Split(p, "/"), IsSegment), "/")
    IN  IF p[1] = "/" THEN <<"/">> \o body ELSE body

\* directories that are not descended into: files right under folder only
getFiles_TopOnly(folder, disk) ==
    LET top  == SelectSeq(disk, LAMBDA f : IndexOf(f, "/") = 0)
    IN  [i \in DOMAIN top |-> join(folder, top[i])]

\* getFiles(folder): every regular file under folder, directories descended
\* into with join(folder, name) at each level; disk lists the files by their
\* path relative to folder, in the order readdirSync meets them
getFiles(folder, disk) ==
    [i \in DOMAIN disk |->
        ReplaceAll(join(folder, disk[i]), <<".", ".", "\\">>, <<>>)]

\* getFileExtension: fname.split('.').filter(Boolean).slice(-1)[0]
getFileExtension(fname) ==
    LET parts == SelectSeq(Split(fname, "."), LAMBDA x : x # <<>>)
    IN  IF parts = <<>> THEN <<>> ELSE parts[Len(parts)]

\* mimetable.json: the entries of the extensions explored, and 'default'
MIME_TABLE(ext) ==
    CASE ext = <<"c", "s", "s">> -> "text/css"
      [] ext = <<"j", "s">>      -> "application/javascript"
      [] OTHER                   -> "application/octet-stream"

\* the URL path static() derives for one enumerated file (lines 137-141)
StaticPath(directoryPath, mountPath, fname) ==
    LET folderRelative == ReplaceFirst(directoryPath, <<".", "/">>, <<>>)
        base    == <<"/">> \o ReplaceAll(ReplaceFirst(fname, folderRelative, <<>>),
                                         <<"\\">>, <<"/">>)
        mounted == IF mountPath # <<>>
                   THEN mountPath \o <<"/">>
                            \o JoinWith(SliceOne(Split(Tail(base), "/")), "/")
                   ELSE base
    IN  ReplaceAll(mounted, <<"/", "/">>, <<"/">>)

\* this.get(pathWithoutBase, handler) for each file, in order
RECURSIVE StaticRoutes(_, _, _, _, _)
StaticRoutes(lay, directoryPath, mountPath, files, h) ==
    IF files = <<>> THEN lay
    ELSE StaticRoutes(setRoute(lay, "get", StaticPath(directoryPath, mountPath, Head(files)), h),
                      directoryPath, mountPath, Tail(files), h + 1)

\* inputs: directory names, mount paths, files, and where things are
D_public      == <<".", "/", "p", "u", "b", "l", "i", "c">>
D_publicSlash == D_public \o <<"/">>
M_static      == <<"/", "s", "t", "a", "t", "i", "c">>
F_bcss        == <<"a", "/", "b", ".", "c", "s", "s">>
F_xjs         == <<"x", ".", "j", "s">>
F_readme      == <<"R", "E", "A", "D", "M", "E">>

Directories == {D_public, D_publicSlash}
Mounts      == {<<>>, M_static}
DiskFiles   == {F_bcss, F_xjs, F_readme}

\* the working directory of the process, and the directory two levels above
\* slower.js (path.join(__dirname, '../../')): the same directory, or the
\* node_modules directory when the package is installed as a dependency
Cwd         == <<"/", "a", "p", "p">>
ModuleRoots == {Cwd, Cwd \o <<"/", "n", "o", "d", "e", "_", "m", "o", "d", "u", "l", "e", "s">>}

\* a regular file appears under the directory (before or after static())
CreateFile(f) ==
    /\ Len(fsys.disk) < MaxFiles
    /\ \A i \in DOMAIN fsys.disk : fsys.disk[i] # f
    /\ fsys' = [fsys EXCEPT !.disk = Append(@, f)]
    /\ UNCHANGED <<fcall, layers, nextH, regs, lg, sp, req, res, streams, acts, stack,
                   microq, log, exhausted, escaped, crashed, calls, ops>>

\* app.static(directoryPath, mountPath), the package being installed so
\* that path.join(__dirname, '../../') is moduleRoot
Static(directoryPath, mountPath, moduleRoot) ==
    /\ ~fsys.published
    /\ LET files == getFiles(directoryPath, fsys.disk)
       IN  /\ layers' = StaticRoutes(layers, directoryPath, mountPath, files, nextH)
           /\ nextH' = nextH + Len(files)
           /\ regs' = regs \o [i \in DOMAIN files |->
                                  [api |-> "static", verb |-> "get",
                                   path |-> StaticPath(directoryPath, mountPath, files[i])]]
           /\ fsys' = [fsys EXCEPT
                         !.published  = TRUE,
                         !.directory  = directoryPath,
                         !.mountPath  = mountPath,
                         !.moduleRoot = moduleRoot,
                         !.snapshot   = fsys.disk,
                         !.files      = [i \in DOMAIN files |->
                                            [handler |-> nextH + i - 1, file |-> files[i]]]]
    /\ UNCHANGED <<fcall, lg, sp, req, res, streams, acts, stack,
                   microq, log, exhausted, escaped, crashed, calls, ops>>

\* the file held by the closure of handler h
FileOf(h) == (CHOOSE i \in DOMAIN fsys.files : fsys.files[i].handler = h)

\* a request served by the first entry of its match list, a handler made by
\* static(): it opens path.join(__dirname, '../../', file), sets the
\* Content-Type from the extension of file and pipes the stream
StaticRequest(method, url) ==
    /\ fsys.published
    /\ Len(fsys.opened) < MaxFiles
    /\ LET list == getMatchingRoute(url, method, layers)
       IN  /\ list # <<>>
           /\ LET held == fsys.files[FileOf(list[1].callback)].file
              IN  fsys' = [fsys EXCEPT
                     !.opened = Append(@, [url     |-> url,
                                           handler |-> list[1].callback,
                                           path    |-> join(fsys.moduleRoot, held),
                                           type    |-> MIME_TABLE(getFileExtension(held))])]
    /\ UNCHANGED <<fcall, layers, nextH, regs, lg, sp, req, res, streams, acts, stack,
                   microq, log, exhausted, escaped, crashed, calls, ops>>

\* the URLs requested: the paths the claim expects, with and without a
\* traversal attempt, and the paths registered
StaticUrls ==
    {M_static \o <<"/">> \o f : f \in DiskFiles}
        \cup {<<"/">> \o f : f \in DiskFiles}
        \cup {M_static \o <<"/">> \o Tail(Tail(f)) : f \in {F_bcss}}
        \cup {M_static \o <<"/", ".", ".", "/">> \o f : f \in {F_xjs}}

NextStatic ==
    \/ \E f \in DiskFiles : CreateFile(f)
    \/ \E d \in Directories, m \in Mounts, r \in ModuleRoots : Static(d, m, r)
    \/ \E m \in ReqMethods, u \in StaticUrls : StaticRequest(m, u)

SpecStatic == Init /\ [][NextStatic]_vars

(***************************************************************************)
(* Part IV : the session addresses of a request.  setupRequest fills       *)
(* request.session through utils.normalizeAddress; the legacy router fills *)
(* it in setSocketLocals.  Addresses are sequences of characters.          *)
(***************************************************************************)
\* addr.startsWith(prefix)
startsWith(addr, prefix) ==
    Len(addr) >= Len(prefix) /\ SubSeq(addr, 1, Len(prefix)) = prefix

\* addr.substring(addr.indexOf(':', 2) + 1): indexOf is -1 when ':' is absent
AfterColon(addr) ==
    SubSeq(addr, IndexOfFrom(addr, ":", 3) + 1, Len(addr))

\* normalizeAddress = addr => addr.startsWith('::') ? addr : addr.substring(...)
normalizeAddress(addr) ==
    IF startsWith(addr, <<":", ":">>) THEN addr ELSE AfterColon(addr)

\* setSocketLocals: address.startsWith('::') ? address.substring(...) : address
LegacyAddress(addr) ==
    IF startsWith(addr, <<":", ":">>) THEN AfterColon(addr) ELSE addr

\* the prefix of an IPv4-mapped IPv6 address
MappedPrefix == <<":", ":", "f", "f", "f", "f", ":">>

\* IPv4 addresses a socket reports
IPv4s ==
    {<<"1", ".", "2", ".", "3", ".", "4">>,
     <<"1", "2", "7", ".", "0", ".", "0", ".", "1">>,
     <<"1", "0", ".", "0", ".", "0", ".", "9">>,
     <<"0", ".", "0", ".", "0", ".", "0">>}

\* IPv6 addresses a socket reports
IPv6s ==
    {<<":", ":", "1">>, <<":", ":">>, <<"f", "e", "8", "0", ":", ":", "1">>}

\* socket.localAddress / socket.remoteAddress: on a dual-stack listener an
\* IPv4 peer is reported as an IPv4-mapped IPv6 address
SocketAddresses == IPv4s \cup {MappedPrefix \o a : a \in IPv4s} \cup IPv6s

\* setupRequest: request.session = {host, rhost} of the socket's addresses
SetupSession(localAddress, remoteAddress) ==
    /\ fcall.fn = "none"
    /\ fcall' = [fn            |-> "setupRequest",
                 localAddress  |-> localAddress,
                 remoteAddress |-> remoteAddress,
                 host          |-> normalizeAddress(localAddress),
                 rhost         |-> normalizeAddress(remoteAddress)]
    /\ UNCHANGED <<fsys, layers, nextH, regs, lg, sp, req, res, streams, acts, stack,
                   microq, log, exhausted, escaped, crashed, calls, ops>>

\* setSocketLocals of the legacy router
SetSocketLocals(localAddress, remoteAddress) ==
    /\ fcall.fn = "none"
    /\ fcall' = [fn            |-> "setSocketLocals",
                 localAddress  |-> localAddress,
                 remoteAddress |-> remoteAddress,
                 host          |-> LegacyAddress(localAddress),
                 rhost         |-> LegacyAddress(remoteAddress)]
    /\ UNCHANGED <<fsys, layers, nextH, regs, lg, sp, req, res, streams, acts, stack,
                   microq, log, exhausted, escaped, crashed, calls, ops>>

NextSession ==
    \/ \E l \in SocketAddresses, r \in SocketAddresses : SetupSession(l, r)
    \/ \E l \in SocketAddresses, r \in SocketAddresses : SetSocketLocals(l, r)

SpecSession == Init /\ [][NextSession]_vars
(***************************************************************************)
(* Part V : the template substitution of response.render.  The template    *)
(* is a sequence of characters; locals is the sequence of the entries of   *)
(* the locals object in the order of for...in, each a key and a value that *)
(* is a string or a function (text: the string, or what the call returns). *)
(***************************************************************************)
\* the 'i' flag: letters are compared by their case folding
Fold(c) ==
    CASE c = "X" -> "x"
      [] c = "Y" -> "y"
      [] c = "A" -> "a"
      [] OTHER   -> c

\* new RegExp('{{' + item + '}}'): for a key of letters the pattern is the
\* literal text (a brace that opens no quantifier stands for itself)
Token(item) == <<"{", "{">> \o item \o <<"}", "}">>

\* the pattern matches at the head of s with the very same characters
MatchesHead_ExactCase(s, token) ==
    Len(s) >= Len(token) /\ SubSeq(s, 1, Len(token)) = token

\* the pattern matches at the head of s under the flag 'i'
MatchesHead(s, token) ==
    /\ Len(s) >= Len(token)
    /\ \A i \in 1..Len(token) : Fold(s[i]) = Fold(token[i])

\* html.replace(new RegExp(token, 'gim'), by): every match, left to right
RECURSIVE ReplaceEvery(_, _, _)
ReplaceEvery(s, token, by) ==
    IF Len(s) < Len(token) THEN s
    ELSE IF MatchesHead(s, token)
    THEN by \o ReplaceEvery(SubSeq(s, Len(token) + 1, Len(s)), token, by)
    ELSE <<Head(s)>> \o ReplaceEvery(Tail(s), token, by)

\* typeof locals[item] === 'function' ? locals[item]() : locals[item]?.toString() || ''
LocalText(local) ==
    IF local.kind = "function" THEN local.text     \* what the call returns
    ELSE local.text                                \* toString() of a string

\* for (let item in locals) html = html.replace(...)
RECURSIVE Substitute(_, _)
Substitute(html, locals) ==
    IF locals = <<>> THEN html
    ELSE Substitute(ReplaceEvery(html, Token(Head(locals).key), LocalText(Head(locals))),
                    Tail(locals))

\* the pieces a template file is written from: tokens and other text
TemplatePieces ==
    {Token(<<"x">>), Token(<<"X">>), Token(<<"y">>),
     <<"a">>, <<"{", "x", "}">>}

\* the characters of a sequence of pieces
RECURSIVE Flatten(_)
Flatten(pieces) ==
    IF pieces = <<>> THEN <<>> ELSE Head(pieces) \o Flatten(Tail(pieces))

\* the templates explored: up to MaxPieces pieces
Templates ==
    UNION {[1..n -> TemplatePieces] : n \in 0..MaxPieces}

\* the locals objects explored
LocalsLists ==
    {<<>>,
     <<[key |-> <<"x">>, kind |-> "string", text |-> <<"v">>]>>,
     <<[key |-> <<"X">>, kind |-> "string", text |-> <<"v">>]>>,
     <<[key |-> <<"y">>, kind |-> "string", text |-> <<>>]>>,
     <<[key |-> <<"x">>, kind |-> "string", text |-> <<"v">>],
       [key |-> <<"y">>, kind |-> "function", text |-> <<"w", "w">>]>>}

\* response.render(filename, locals): the html written to the response
Render(pieces, locals) ==
    /\ fcall.fn = "none"
    /\ fcall' = [fn       |-> "render",
                 pieces   |-> pieces,
                 template |-> Flatten(pieces),     \* readFileSync(filename, 'utf-8')
                 locals   |-> locals,
                 html     |-> Substitute(Flatten(pieces), locals)]
    /\ UNCHANGED <<fsys, layers, nextH, regs, lg, sp, req, res, streams, acts, stack,
                   microq, log, exhausted, escaped, crashed, calls, ops>>

NextRender ==
    \E pieces \in Templates, locals \in LocalsLists : Render(pieces, locals)

SpecRender == Init /\ [][NextRender]_vars
(***************************************************************************)
(* Part VI : the callback of a setDynamic route of the legacy router.      *)
(* mime is a string and is compared with the table's default entry, an     *)
(* array: the file is always read as 'utf-8' text.                         *)
(***************************************************************************)
\* the pattern matches somewhere in s (flag 'i')
MatchesSomewhere(s, token) ==
    \E i \in 1..Len(s) : MatchesHead(SubSeq(s, i, Len(s)), token)

\* renderDynamicHTML(html, patterns): a function value is called by replace
\* for each match, so one that throws does so when its token occurs.
\* Yields whether the call threw and the value of `template` at that point
RECURSIVE renderDynamicHTML(_, _)
renderDynamicHTML(template, patterns) ==
    IF patterns = <<>> THEN [threw |-> FALSE, text |-> template]
    ELSE LET item == Head(patterns)
         IN  IF item.kind = "throws" /\ MatchesSomewhere(template, Token(item.key))
             THEN [threw |-> TRUE, text |-> template]
             ELSE renderDynamicHTML(ReplaceEvery(template, Token(item.key), item.text),
                                    Tail(patterns))

\* try { data = fs.readFileSync(targetFile, targetEncoding) } catch (err) { data = '' }
ReadOrEmpty(readable, content) == IF readable THEN content ELSE <<>>

\* the substitutions made before the error are kept
DynamicData_Partial(data, patterns) ==
    renderDynamicHTML(data, patterns).text

\* try { if (replacementData) data = renderDynamicHTML(data, replacementData) } catch (err) {}
DynamicData(data, patterns) ==
    LET r == renderDynamicHTML(data, patterns)
    IN  IF r.threw THEN data ELSE r.text

\* the replacementData objects explored; <<>> is null (or an empty object)
ReplacementData ==
    {<<>>,
     <<[key |-> <<"x">>, kind |-> "string", text |-> <<"v">>]>>,
     <<[key |-> <<"x">>, kind |-> "function", text |-> <<"w">>]>>,
     <<[key |-> <<"y">>, kind |-> "throws", text |-> <<>>]>>,
     <<[key |-> <<"x">>, kind |-> "string", text |-> <<"v">>],
       [key |-> <<"y">>, kind |-> "throws", text |-> <<>>]>>}

\* the callback of the route made by setDynamic(path, file, mime, replacementData)
\* serving a GET request: writeHead(200, ...); write(data); end()
DynamicRequest(readable, pieces, patterns) ==
    /\ fcall.fn = "none"
    /\ fcall' = [fn       |-> "setDynamic",
                 readable |-> readable,              \* readFileSync succeeds
                 content  |-> Flatten(pieces),       \* the content of the file
                 patterns |-> patterns,
                 threw    |-> renderDynamicHTML(ReadOrEmpty(readable, Flatten(pieces)),
                                                patterns).threw,
                 status   |-> 200,
                 body     |-> DynamicData(ReadOrEmpty(readable, Flatten(pieces)), patterns),
                 ended    |-> TRUE]
    /\ UNCHANGED <<fsys, layers, nextH, regs, lg, sp, req, res, streams, acts, stack,
                   microq, log, exhausted, escaped, crashed, calls, ops>>

NextDynamic ==
    \E readable \in BOOLEAN, pieces \in Templates, patterns \in ReplacementData :
        DynamicRequest(readable, pieces, patterns)

SpecDynamic == Init /\ [][NextDynamic]_vars
(***************************************************************************)
(* Part VII : the connection pool of the legacy router and close().        *)
(* The pool maps the UUID made for a connection to its socket; a socket    *)
(* stands for its own key here, two UUIDs of 32 random digits being taken  *)
(* as different.  The sockets follow net.Socket: 'timeout' and 'error'     *)
(* come from an open socket only (destroy() clears its timer and a         *)
(* destroyed stream emits no error), and 'close' comes once, in a later    *)
(* turn than the destroy() that causes it.                                 *)
(***************************************************************************)
\* this.connectionpool[id] = socket
OnConnection(pool, id) == pool \cup {id}

\* socket.on('close', () => delete this.connectionpool[id])
OnClose(pool, id) == pool \ {id}

\* the listener of 'error' leaves the entry in place
OnError_Keeps(pool, id) == pool

\* socket.on('error', () => delete this.connectionpool[id])
OnError(pool, id) == pool \ {id}

\* socket.on('timeout', () => { this.connectionpool[id].destroy(); delete ... }):
\* the call of destroy on a missing entry throws
OnTimeout(pool, id) == [failed |-> id \notin pool, pool |-> pool \ {id}]

\* server 'connection': the server accepts the socket, the router stores it
Connection(s) ==
    /\ lg.server.listening
    /\ lg.server.sockets[s].state = "none"
    /\ lg' = [lg EXCEPT !.server.sockets[s].state = "open",
                        !.connectionpool = OnConnection(@, s)]
    /\ UNCHANGED <<fcall, fsys, layers, nextH, regs, sp, req, res, streams, acts, stack,
                   microq, log, exhausted, escaped, crashed, calls, ops>>

\* socket 'timeout': the listener of the http server, added first, destroys
\* the socket, then the listener of the router runs
SocketTimeout(s) ==
    /\ lg.server.sockets[s].state = "open"
    /\ lg' = [lg EXCEPT !.server.sockets[s] = [state   |-> "destroyed",
                                               emitted |-> @.emitted \cup {"timeout"},
                                               by      |-> "timeout"],
                        !.poolFailed = @ \/ OnTimeout(lg.connectionpool, s).failed,
                        !.connectionpool = OnTimeout(@, s).pool]
    /\ UNCHANGED <<fcall, fsys, layers, nextH, regs, sp, req, res, streams, acts, stack,
                   microq, log, exhausted, escaped, crashed, calls, ops>>

\* socket 'error': the stream was destroyed with an error
SocketError(s) ==
    /\ lg.server.sockets[s].state = "open"
    /\ lg' = [lg EXCEPT !.server.sockets[s] = [state   |-> "destroyed",
                                               emitted |-> @.emitted \cup {"error"},
                                               by      |-> "error"],
                        !.connectionpool = OnError(@, s)]
    /\ UNCHANGED <<fcall, fsys, layers, nextH, regs, sp, req, res, streams, acts, stack,
                   microq, log, exhausted, escaped, crashed, calls, ops>>

\* the peer ends the connection: the socket is destroyed, nothing is emitted yet
SocketEnds(s) ==
    /\ lg.server.sockets[s].state = "open"
    /\ lg' = [lg EXCEPT !.server.sockets[s].state = "destroyed",
                        !.server.sockets[s].by = "peer"]
    /\ UNCHANGED <<fcall, fsys, layers, nextH, regs, sp, req, res, streams, acts, stack,
                   microq, log, exhausted, escaped, crashed, calls, ops>>

\* socket 'close': the handle of a destroyed socket is released
SocketClose(s) ==
    /\ lg.server.sockets[s].state = "destroyed"
    /\ lg' = [lg EXCEPT !.server.sockets[s].state = "closed",
                        !.server.sockets[s].emitted = @ \cup {"close"},
                        !.connectionpool = OnClose(@, s)]
    /\ UNCHANGED <<fcall, fsys, layers, nextH, regs, sp, req, res, streams, acts, stack,
                   microq, log, exhausted, escaped, crashed, calls, ops>>

\* the loop of close() destroys nothing
DestroyAll_None(sockets, pool) == sockets

\* for (let sock in this.connectionpool) this.connectionpool[sock].destroy():
\* destroy() on a socket already destroyed does nothing
DestroyAll(sockets, pool) ==
    [s \in Sockets |->
        IF s \in pool /\ sockets[s].state = "open"
        THEN [sockets[s] EXCEPT !.state = "destroyed", !.by = "close"]
        ELSE sockets[s]]

\* where close() goes on after each of its points: the two waits of one
\* second are skipped with instantClose, getConnections is awaited unless
\* silent, and without forceDisconnection the executor ends after server.close()
AfterCount(c) == IF c.instant THEN "destroy" ELSE "wait2"
AfterWait1(c) == IF c.silent THEN AfterCount(c) ELSE "count"
AfterCall(c) ==
    IF ~c.force THEN "done" ELSE IF c.instant THEN AfterWait1(c) ELSE "wait1"
Position(c) ==
    CASE c.pc = "called" -> AfterCall(c)
      [] c.pc = "wait1"  -> AfterWait1(c)
      [] c.pc = "count"  -> AfterCount(c)
      [] c.pc = "wait2"  -> "destroy"

\* close() runs from the point c.pc to its next await, or to its end
RunClose(r, c) ==
    LET waited == c.waited + (IF c.pc \in {"wait1", "wait2"} THEN 1 ELSE 0)
    IN  IF Position(c) = "destroy"
        THEN [r EXCEPT !.closing = [c EXCEPT !.pc = "done", !.waited = waited],
                       !.server.sockets = DestroyAll(@, r.connectionpool)]
        ELSE [r EXCEPT !.closing = [c EXCEPT !.pc = Position(c), !.waited = waited]]

\* close({forceDisconnection, instantClose, silent}): server.close() stops
\* the listening, then the executor runs to its first await
close(forceDisconnection, instantClose, silent) ==
    /\ lg.started
    /\ lg.closing.pc = "none"
    /\ lg' = RunClose([lg EXCEPT !.server.listening = FALSE],
                      [pc |-> "called", force |-> forceDisconnection,
                       instant |-> instantClose, silent |-> silent,
                       resolved |-> FALSE, waited |-> 0])
    /\ UNCHANGED <<fcall, fsys, layers, nextH, regs, sp, req, res, streams, acts, stack,
                   microq, log, exhausted, escaped, crashed, calls, ops>>

\* a timer of one second fires, or getConnections calls back
CloseResumes ==
    /\ lg.closing.pc \in {"wait1", "count", "wait2"}
    /\ lg' = RunClose(lg, lg.closing)
    /\ UNCHANGED <<fcall, fsys, layers, nextH, regs, sp, req, res, streams, acts, stack,
                   microq, log, exhausted, escaped, crashed, calls, ops>>

\* server 'close': it no longer listens and its last connection has closed;
\* the listener added by close() resolves the promise
ServerClose ==
    /\ lg.closing.pc # "none"
    /\ ~lg.server.listening
    /\ ~lg.server.closeEmitted
    /\ \A s \in Sockets : lg.server.sockets[s].state \in {"none", "closed"}
    /\ lg' = [lg EXCEPT !.server.closeEmitted = TRUE,
                        !.closing.resolved = TRUE]
    /\ UNCHANGED <<fcall, fsys, layers, nextH, regs, sp, req, res, streams, acts, stack,
                   microq, log, exhausted, escaped, crashed, calls, ops>>

NextPool ==
    \/ start
    \/ \E s \in Sockets : Connection(s)
    \/ \E s \in Sockets : SocketTimeout(s)
    \/ \E s \in Sockets : SocketError(s)
    \/ \E s \in Sockets : SocketEnds(s)
    \/ \E s \in Sockets : SocketClose(s)
    \/ \E f \in BOOLEAN, i \in BOOLEAN, q \in BOOLEAN : close(f, i, q)
    \/ CloseResumes
    \/ ServerClose

SpecPool == Init /\ [][NextPool]_vars

\* the event loop releases the handle of every destroyed socket, fires the
\* timers of close() and lets the drained server emit 'close'
SpecPoolFair ==
    /\ SpecPool
    /\ \A s \in Sockets : WF_vars(SocketClose(s))
    /\ WF_vars(CloseResumes)
    /\ WF_vars(ServerClose)
(***************************************************************************)
(* Properties of the continuation-based router.                            *)
(***************************************************************************)
\* routes registered under the verb of the request, in registration order
ReqRoutes ==
    IF toLowerCase(req.method) \in DOMAIN layers
    THEN layers[toLowerCase(req.method)] ELSE <<>>

\* the route was registered with a pattern that matches the request path
MatchesRequest(route) == PathFn(route.path, getURLPathBody(req.url)).ok

\* handlers of the match list computed for the request
FoundHandlers == {req.foundRoutes[k].callback : k \in DOMAIN req.foundRoutes}

\* no frame runs, no microtask is queued, every activation has finished:
\* nothing will ever act on the request again
Quiescent ==
    /\ LoopIdle
    /\ \A a \in DOMAIN acts : acts[a].st \in {"done", "threw"}

\* C1: of two handlers registered under the method of the request whose
\* patterns both match its path, the one registered first is invoked first:
\* whenever a handler is invoked, every matching handler registered before
\* it (smaller identity) was invoked earlier, whatever the patterns are.
C1_RegistrationOrder ==
    \A j \in DOMAIN log : \A k \in DOMAIN ReqRoutes :
        (ReqRoutes[k].handler < log[j] /\ MatchesRequest(ReqRoutes[k]))
            => \E i \in 1..(j - 1) : log[i] = ReqRoutes[k].handler

\* a broad pattern registered first and a literal one registered second were
\* both invoked, in that order
C1_Witness ==
    /\ Len(log) >= 2
    /\ log[1] < log[2]
    /\ \E k1, k2 \in DOMAIN ReqRoutes :
          /\ ReqRoutes[k1].handler = log[1] /\ ReqRoutes[k1].path = P_all
          /\ ReqRoutes[k2].handler = log[2] /\ ReqRoutes[k2].path = P_a

\* C2: when the match list is exhausted and no entry finalized the
\* response, the dispatcher finalizes it: once the chain is exhausted and
\* nothing is left to run, the response is ended.
C2_ExhaustedIsFinalized ==
    (req.phase = "dispatched" /\ exhausted /\ Quiescent) => res.ended

\* C3: calling proceed more than once never invokes a downstream handler
\* twice: no handler occurs twice among the invocations of a request.
C3_NoDoubleInvocation ==
    \A i, j \in DOMAIN log : i # j => log[i] # log[j]

\* C4: once the response is finalized, no further entry of the match list
\* is invoked for the request.
C4_NoInvocationAfterFinalize ==
    [][res.ended => log' = log]_vars

\* C5: after any sequence of calls to the finalizing helpers, at most one
\* body has been written to the response and it was ended at most once.
C5_AtMostOneBody ==
    res.bodies <= 1 /\ res.endCalls <= 1

\* C6: an error thrown by a chain entry is caught by the dispatcher: it
\* never escapes the request handler, and once nothing is left to run the
\* response is finalized.
C6_ErrorsAreCaught ==
    (\E a \in DOMAIN acts : acts[a].st = "threw")
        => (~escaped /\ (Quiescent => res.ended))

\* the last element of a non-empty sequence
Last(q) == q[Len(q)]

\* C7: the match list of a request is computed once, and every handler
\* invoked for the request belongs to it: the list does not change while
\* the request is served, and each invocation takes its handler from it,
\* so a route registered meanwhile is never invoked.
C7_FrozenMatchList ==
    [][ /\ (req.phase # "idle" => req'.foundRoutes = req.foundRoutes)
        /\ (log' # log => Last(log') \in FoundHandlers) ]_vars

\* a route matching the request was registered after the list was computed,
\* and the chain of the request has run to its end without invoking it
C7_Witness ==
    /\ log # <<>>
    /\ Quiescent
    /\ \E k \in DOMAIN ReqRoutes :
          /\ MatchesRequest(ReqRoutes[k])
          /\ ReqRoutes[k].handler \notin FoundHandlers

\* chunks 1..n in order of arrival
Chunks(n) == [i \in 1..n |-> i]

\* C8: an entry is invoked only after the 'end' event of the request fired
\* and req.body holds every chunk received; when buffering failed, no entry
\* is ever invoked.
C8_DecoratedBeforeChain ==
    /\ (log # <<>> \/ exhausted)
          => (req.ended /\ req.buffer = Chunks(req.received))
    /\ req.phase = "failed" => (log = <<>> /\ ~exhausted)

\* an entry runs for a request whose body arrived in at least one chunk
C8_Witness ==
    /\ log # <<>>
    /\ req.received >= 1
    /\ req.phase = "dispatched"

\* activation b was started through the proceed call that started c
RECURSIVE StartedThrough(_, _)
StartedThrough(b, c) ==
    \/ b = c
    \/ (acts[b].parent # 0 /\ StartedThrough(acts[b].parent, c))

\* C9: an entry that awaits proceed() resumes only after every downstream
\* entry started through that call has completed.
C9_ProceedAwaitsDownstream ==
    \A a \in DOMAIN acts :
        (acts[a].resumed /\ acts[a].child # 0)
            => \A b \in DOMAIN acts :
                   StartedThrough(b, acts[a].child)
                       => acts[b].st \in {"done", "threw"}

\* position of handler h in the match list, 0 when absent
PosInList(h) ==
    IF h \in FoundHandlers
    THEN CHOOSE k \in DOMAIN req.foundRoutes : req.foundRoutes[k].callback = h
    ELSE 0

\* C10: the entries invoked for a request form a prefix of its match list,
\* and an entry other than the first is invoked only by the proceed call of
\* an activation of the entry just before it; hence an entry that returns
\* without calling proceed leaves every later entry uninvoked.
C10_PrefixOfMatchList ==
    /\ \E n \in 0..Len(req.foundRoutes) :
          {log[j] : j \in DOMAIN log} = {req.foundRoutes[k].callback : k \in 1..n}
    /\ \A b \in DOMAIN acts :
          /\ PosInList(acts[b].h) >= 1
          /\ IF acts[b].parent = 0
             THEN PosInList(acts[b].h) = 1
             ELSE PosInList(acts[b].h) = PosInList(acts[acts[b].parent].h) + 1

\* the first of two matching entries returned without calling proceed and
\* nothing is left to run: the second entry was not invoked
C10_Witness ==
    /\ Len(req.foundRoutes) = 2
    /\ Len(log) = 1
    /\ Quiescent
    /\ ops = 0

(***************************************************************************)
(* Properties of the route table.                                          *)
(***************************************************************************)
\* verb and path of the request looked up
ReqVerb == toLowerCase(req.method)

ReqPath == getURLPathBody(req.url)

\* registration r put its handler under verb v
Covers(r, v) == (r.api \in {"all", "use"} /\ v \in HTTP_VERBS) \/ r.verb = v

\* entries of the verb's Map that hold handler h
EntriesOf(v, h) == {k \in DOMAIN layers[v] : layers[v][k].handler = h}

\* C11: registering several handlers for the same method and the same
\* pattern retains all of them.  Every registration keeps its entry, with
\* its pattern, in the Map of every verb it was made for; and a request
\* matching method and pattern of two registrations of one pattern has both
\* handlers in its match list, the one registered first before the other.
C11_AllRetained ==
    /\ \A i \in DOMAIN regs : \A v \in HTTP_VERBS :
          Covers(regs[i], v)
              => \E k \in EntriesOf(v, i) : layers[v][k].path = regs[i].path
    /\ req.phase # "idle"
          => \A i, j \in DOMAIN regs :
                 ( /\ i < j
                   /\ regs[i].path = regs[j].path
                   /\ Covers(regs[i], ReqVerb) /\ Covers(regs[j], ReqVerb)
                   /\ PathFn(regs[i].path, ReqPath).ok )
                     => (1 <= PosInList(i) /\ PosInList(i) < PosInList(j))

\* two handlers were registered for GET with the literal pattern, and the
\* list of a request GET /a holds both
C11_Witness ==
    /\ req.phase # "idle"
    /\ req.method = "GET" /\ req.url = U_a
    /\ Len(regs) >= 2
    /\ regs[1].api = "verb" /\ regs[1].verb = "get" /\ regs[1].path = P_a
    /\ regs[2].api = "verb" /\ regs[2].verb = "get" /\ regs[2].path = P_a
    /\ Len(req.foundRoutes) = 2

\* C12: a request whose method is not a known verb has an empty match
\* list, whatever was registered, global middleware included (the chain
\* invokes handlers of the match list only, see C7).
C12_UnknownVerbEmpty ==
    (req.phase # "idle" /\ ReqVerb \notin HTTP_VERBS) => req.foundRoutes = <<>>

\* a global middleware is registered, its pattern matches the path of a
\* BREW request, and the list of that request is empty
C12_Witness ==
    /\ req.phase # "idle"
    /\ req.method = "BREW"
    /\ \E i \in DOMAIN regs : regs[i].api = "use"
    /\ PathFn(P_all, ReqPath).ok
    /\ req.foundRoutes = <<>>

C14_LiteralExact ==
    req.phase # "idle"
        => \A i \in DOMAIN regs :
               (regs[i].api = "verb" /\ regs[i].path = P_a)
                   => (i \in FoundHandlers
                          <=> (ReqVerb = regs[i].verb /\ ReqPath = regs[i].path))

(***************************************************************************)
(* Properties of path parameters.                                          *)
(***************************************************************************)
\* the route registered with handler h under the verb of the request
RouteOf(h) == ReqRoutes[CHOOSE k \in DOMAIN ReqRoutes : ReqRoutes[k].handler = h]

\* the named parameters captured by the match of h's own route
OwnParams(h) ==
    LET m == PathFn(RouteOf(h).path, ReqPath)
    IN  IF "0" \in DOMAIN m.params THEN <<>> ELSE m.params

\* the parameters a handler reads in r.params (none when it is undefined)
VisibleParams(r) == IF r.hasParams THEN r.params ELSE <<>>

\* C15: when a chain entry is invoked, req.params holds exactly the named
\* parameters captured by the match of that entry's own route.
C15_ParamsPerRoute ==
    [][log' # log => VisibleParams(req') = OwnParams(Last(log'))]_vars

\* C16: a capture stored under the positional key '0' is never surfaced:
\* neither req.params nor the params of any element of the match list has
\* the key '0'.
C16_NoPositionalKey ==
    /\ req.hasParams => "0" \notin DOMAIN req.params
    /\ \A k \in DOMAIN req.foundRoutes :
          req.foundRoutes[k].hasParams => "0" \notin DOMAIN req.foundRoutes[k].params

\* an entry registered with the catch-all pattern, whose match captured the
\* rest of the path under '0', was invoked
C16_Witness ==
    /\ log # <<>>
    /\ RouteOf(Last(log)).path = P_all
    /\ "0" \in DOMAIN PathFn(P_all, ReqPath).params
    /\ PathFn(P_all, ReqPath).params["0"] # <<>>

(***************************************************************************)
(* Properties of isSparseEqual.                                            *)
(***************************************************************************)
\* token occurs in s
Occurs(token, s) ==
    \E i \in 1..(Len(s) - Len(token) + 1) : SubSeq(s, i, i + Len(token) - 1) = token

NoToken(s) == ~Occurs(T_one, s) /\ ~Occurs(T_any, s)

NoLineTerminator(s) == \A i \in 1..Len(s) : s[i] \notin LineTerminators

\* the part of str2 that follows prefix, when str2 begins with prefix
After(prefix, str2) == SubSeq(str2, Len(prefix) + 1, Len(str2))

BeginsWith(prefix, str2) ==
    Len(str2) >= Len(prefix) /\ SubSeq(str2, 1, Len(prefix)) = prefix

\* C17: '/item/{?}' matches '/item/5' and matches neither '/item/5/6' nor
\* '/item/'.
C17_SingleTokenExamples ==
    (sp.called /\ sp.str1 = P_item)
        => /\ sp.str2 = ItemPrefix \o <<"5">> => sp.result
           /\ sp.str2 = ItemPrefix \o <<"5", "/", "6">> => ~sp.result
           /\ sp.str2 = ItemPrefix => ~sp.result

\* the call on '/item/5/6' returned false
C17_Witness ==
    /\ sp.called
    /\ sp.str1 = P_item
    /\ sp.str2 = ItemPrefix \o <<"5", "/", "6">>
    /\ ~sp.result

C20_LiteralByEquality ==
    (lg.served /\ lg.selected # 0)
        => (NoToken(lg.routes[lg.selected].path)
               => lg.url = lg.routes[lg.selected].path)

(***************************************************************************)
(* Properties of a connection that closes early.                           *)
(***************************************************************************)
\* C21: once the connection closed before the response was finalized, no
\* chain entry and no response helper attempts a write to the response.
C21_NoWriteAfterClose ==
    res.closed => ~res.writeAfterClose

(***************************************************************************)
(* Properties of static().                                                 *)
(***************************************************************************)
\* the route registered with handler h under GET
GetRouteOf(h) == layers["get"][CHOOSE k \in DOMAIN layers["get"] : layers["get"][k].handler = h]

\* the Content-Type of a file by its extension
TypeOfFile(f) ==
    CASE f = F_bcss -> "text/css"
      [] f = F_xjs  -> "application/javascript"
      [] OTHER      -> "application/octet-stream"

\* position in the snapshot of the file held by handler h
SnapshotIndex(h) == CHOOSE i \in DOMAIN fsys.files : fsys.files[i].handler = h

\* C22: static(directoryPath, mountPath) with a non-empty mountPath gives
\* every file of relative path p the GET route mountPath + '/' + p, and a
\* request served by that route gets the Content-Type of the file's
\* extension, whether or not directoryPath ends with '/'.
C22_MountedRoutes ==
    (fsys.published /\ fsys.mountPath # <<>>)
        => /\ \A i \in DOMAIN fsys.snapshot :
                 /\ EntriesOf("get", fsys.files[i].handler) # {}
                 /\ GetRouteOf(fsys.files[i].handler).path
                        = fsys.mountPath \o <<"/">> \o fsys.snapshot[i]
           /\ \A k \in DOMAIN fsys.opened :
                 fsys.opened[k].type
                     = TypeOfFile(fsys.snapshot[SnapshotIndex(fsys.opened[k].handler)])

\* C23: static() adds exactly one GET route per regular file present under
\* the directory when it is called and no other route; nothing that happens
\* later (a file created, a request served) adds a route.
C23_OneRoutePerFile ==
    /\ ~fsys.published => \A v \in HTTP_VERBS : layers[v] = <<>>
    /\ fsys.published
          => /\ Len(layers["get"]) = Len(fsys.snapshot)
             /\ \A i \in DOMAIN fsys.snapshot :
                   Cardinality(EntriesOf("get", fsys.files[i].handler)) = 1
             /\ \A v \in HTTP_VERBS \ {"get"} : layers[v] = <<>>

\* a file was created after static() was called, a request was served after
\* that, and the file has no route
C23_Witness ==
    /\ fsys.published
    /\ Len(fsys.disk) > Len(fsys.snapshot)
    /\ fsys.snapshot # <<>>
    /\ fsys.opened # <<>>
    /\ Len(layers["get"]) = Len(fsys.snapshot)

\* C24: the file read for a request served by a route of static() is one
\* of the files enumerated under the published directory when static() was
\* called, and it is the same for any two requests served by one route.
C24_OpenedIsEnumerated ==
    /\ \A k \in DOMAIN fsys.opened :
          \E i \in DOMAIN fsys.snapshot :
              fsys.opened[k].path = join(Cwd, join(fsys.directory, fsys.snapshot[i]))
    /\ \A k, l \in DOMAIN fsys.opened :
          fsys.opened[k].handler = fsys.opened[l].handler
              => fsys.opened[k].path = fsys.opened[l].path

\* the address without its IPv4-mapped prefix, the address itself when it
\* has none
Stripped(addr) ==
    IF startsWith(addr, MappedPrefix)
    THEN SubSeq(addr, Len(MappedPrefix) + 1, Len(addr)) ELSE addr

\* C25: the session addresses set by setupRequest are the socket addresses
\* with the IPv6 prefix stripped: '::ffff:' followed by an IPv4 address
\* gives the IPv4 address, and an IPv4 address is left unchanged.
C25_SessionStripped ==
    (fcall.fn = "setupRequest"
        /\ fcall.localAddress \in IPv4s \cup {MappedPrefix \o a : a \in IPv4s}
        /\ fcall.remoteAddress \in IPv4s \cup {MappedPrefix \o a : a \in IPv4s})
        => /\ fcall.host = Stripped(fcall.localAddress)
           /\ fcall.rhost = Stripped(fcall.remoteAddress)

\* the helper call made last on a response whose headers were not sent yet
LastCallIs(helper, arg) ==
    /\ Len(calls) >= 1
    /\ calls[Len(calls)].helper = helper
    /\ calls[Len(calls)].arg = arg
    /\ ~calls[Len(calls)].sent

\* C26: set(name, value) sets the header and set(mapping) sets every header
\* of the mapping; neither call raises an error.
C26_SetBothForms ==
    /\ LastCallIs("set", "X-A")
         => (~calls[Len(calls)].threw /\ "X-A" \in res.custom)
    /\ LastCallIs("set", "mapping")
         => (~calls[Len(calls)].threw /\ MappingNames \subseteq res.custom)

\* C27: redirect(target) sets Location to the Referrer header for 'back',
\* to '/' without a target and to the target otherwise, ends the response,
\* and completes without error.
C27_RedirectLocation ==
    \A target \in {"back", "", "/x"} :
        LastCallIs("redirect", target)
            => /\ ~calls[Len(calls)].threw
               /\ res.ended
               /\ res.location = (CASE target = "back" -> Referrer
                                    [] target = ""     -> "/"
                                    [] OTHER           -> target)

\* C29: when a function-valued local throws during the substitution, the
\* response is still written and finalized by render.
C29_SubstitutionErrorConfined ==
    LastCallIs("render", "throws") => (res.ended /\ res.bodies >= 1)

\* the case folding of a sequence of characters
FoldAll(s) == [i \in 1..Len(s) |-> Fold(s[i])]

\* the entries of locals whose token is the piece, exactly / up to letter case
ExactEntries(piece, locals) ==
    {k \in 1..Len(locals) : piece = Token(locals[k].key)}

AnyCaseEntries(piece, locals) ==
    {k \in 1..Len(locals) : FoldAll(piece) = FoldAll(Token(locals[k].key))}

\* the template with each piece that has an entry replaced by the entry's
\* text and every other piece as it is
RECURSIVE Replaced(_, _, _)
Replaced(pieces, locals, anyCase) ==
    IF pieces = <<>> THEN <<>>
    ELSE LET e == IF anyCase THEN AnyCaseEntries(Head(pieces), locals)
                  ELSE ExactEntries(Head(pieces), locals)
         IN  (IF e = {} THEN Head(pieces)
              ELSE LocalText(locals[CHOOSE k \in e : TRUE]))
             \o Replaced(Tail(pieces), locals, anyCase)

NonEmptyCalls ==
    {i \in DOMAIN lg.allowCalls :
        Len(lg.allowCalls[i]) > 0 /\ lg.allowCalls[i] # <<"*">>}

\* the valid verbs of the most recent call with a non-empty list
LastListed ==
    ValidVerbs(lg.allowCalls[CHOOSE i \in NonEmptyCalls :
                                 \A j \in NonEmptyCalls : j <= i])

\* C30: after any sequence of setAllowedMethods calls, the methods served
\* are the valid verbs of the most recent call with a non-empty list: a
\* request of another method reaches neither a route callback nor the
\* fallback and is answered with status 405.
C30_AllowedIsLastListed ==
    (lg.served /\ NonEmptyCalls # {})
        => /\ lg.method \in LastListed => lg.reached \in {"route", "fallback"}
           /\ lg.method \notin LastListed
                 => (lg.reached = "blocked" /\ lg.status = 405)

\* C31: once setAllowedMethods was called without parameters (the empty
\* list) as the last call before the server starts, no request reaches a
\* route callback or the fallback, whatever its method.
C31_EmptyListLocks ==
    (lg.served /\ Len(lg.allowCalls) >= 1 /\ lg.allowCalls[Len(lg.allowCalls)] = <<>>)
        => lg.reached = "blocked"

(***************************************************************************)
(* Properties of the server of the legacy router.                          *)
(***************************************************************************)
\* C32: a request goes through setSocketSecurityHeaders, before any
\* middleware, exactly when strict headers are enabled on the router.
C32_StrictHeadersApplied ==
    lg.served
        => (lg.strictHeaders
               <=> (Len(lg.trace) >= 1 /\ lg.trace[1].step = "security"))

\* the middlewares called for the request, in the order of the calls
CalledMiddlewares ==
    LET ks == {k \in DOMAIN lg.trace : lg.trace[k].step = "middleware"}
    IN  [k \in 1..Cardinality(ks) |-> lg.trace[k].id]

\* every step of the trace that is not a middleware comes after all of them
MiddlewaresFirst ==
    \A k, j \in DOMAIN lg.trace :
        (lg.trace[k].step = "middleware" /\ lg.trace[j].step # "middleware") => k < j

\* the first middleware that ends the response or throws, the last one
\* when there is none
LastToRun ==
    LET stops == {i \in DOMAIN lg.middleware : lg.middleware[i] \in {"ends", "throws"}}
    IN  IF stops = {} THEN Len(lg.middleware)
        ELSE CHOOSE i \in stops : \A j \in stops : i <= j

MatchingRoutes ==
    {i \in DOMAIN lg.routes :
        /\ lg.routes[i].type = lg.method
        /\ (lg.routes[i].path = lg.url \/ isSparseEqual(lg.routes[i].path, lg.url))}

\* the route callbacks and fallbacks invoked for the request
Terminals == {k \in DOMAIN lg.trace : lg.trace[k].step \in {"route", "fallback"}}

\* exactly one terminal handler ran: the first matching route, or the
\* fallback when no route matches
OneTerminal ==
    /\ Cardinality(Terminals) = 1
    /\ LET t == lg.trace[CHOOSE k \in Terminals : TRUE]
       IN  IF MatchingRoutes = {} THEN t.step = "fallback"
           ELSE /\ t.step = "route"
                /\ t.id = lg.routes[CHOOSE i \in MatchingRoutes :
                                       \A j \in MatchingRoutes : i <= j].callback

Requests == LegacyMethods \X {U_css, U_styleX}

\* a call made after start() that sets the fallback or the allowed methods
\* leaves the handling of every request as it was
LateSettingIgnored ==
    (lg'.routes = lg.routes /\ lg'.middleware = lg.middleware)
        => \A q \in Requests : Handle(lg', q[1], q[2]) = Handle(lg, q[1], q[2])

\* a route added after start() serves the requests it matches when no
\* earlier route does
LateRouteUsed ==
    (Len(lg'.routes) = Len(lg.routes) + 1)
        => \A q \in Requests :
              LET r == lg'.routes[Len(lg'.routes)]
                  h == Handle(lg, q[1], q[2])
              IN  (/\ h.reached = "fallback"
                   /\ r.type = q[1]
                   /\ (r.path = q[2] \/ isSparseEqual(r.path, q[2])))
                      => (/\ Handle(lg', q[1], q[2]).reached = "route"
                          /\ Handle(lg', q[1], q[2]).selected = r.callback)

\* a middleware added after start() is called for the requests that the
\* earlier middlewares let through
LateMiddlewareUsed ==
    (Len(lg'.middleware) = Len(lg.middleware) + 1)
        => \A q \in Requests :
              Handle(lg, q[1], q[2]).reached \notin {"middleware", "error"}
                  => \E k \in DOMAIN Handle(lg', q[1], q[2]).trace :
                        Handle(lg', q[1], q[2]).trace[k] =
                            [step |-> "middleware", id |-> Len(lg'.middleware)]

\* C36: once start() was called, setFallback, setFallbackFile and
\* setAllowedMethods do not change how requests are handled, while a route
\* or a middleware added with setRoute / setMiddleware is used.
C36_StartCaptures ==
    [][(lg.started /\ ~lg.served /\ ~lg'.served)
          => (LateSettingIgnored /\ LateRouteUsed /\ LateMiddlewareUsed)]_vars

\* a request is served by the fallback that start() saw, after the fallback
\* and the allowed methods of the router were both set to something else
C36_Witness ==
    /\ lg.served
    /\ lg.reached = "fallback"
    /\ lg.fallback # lg.captured.fallback
    /\ lg.allowedMethods # lg.captured.allowedMethods
    /\ lg.trace[Len(lg.trace)].id = lg.captured.fallback

(***************************************************************************)
(* Properties of routes registered with a RegExp path.                     *)
(***************************************************************************)
\* the paths the RegExp matches: /^\/a$/ matches '/a', /^\/.*$/ every path
RegExpMatches(rx, p) ==
    IF rx = R_a THEN p = U_a ELSE Len(p) >= 1 /\ p[1] = "/"

\* C38: the lookup made for a request completes without error, and every
\* handler registered under the request's method with a RegExp that matches
\* the request path is in the match list.
C38_RegExpRouteMatched ==
    req.phase # "idle"
        => /\ ~escaped
           /\ \A k \in DOMAIN ReqRoutes :
                 (IsRegExp(ReqRoutes[k].path)
                     /\ RegExpMatches(ReqRoutes[k].path, getURLPathBody(req.url)))
                    => ReqRoutes[k].handler \in FoundHandlers

(***************************************************************************)
(* Properties of the setDynamic routes of the legacy router.               *)
(***************************************************************************)
\* C39: a request served by a setDynamic route gets an ended response with
\* status 200; its body is empty when the file cannot be read, and it is
\* the content of the file, unsubstituted, when the substitution throws.
C39_DynamicDegrades ==
    fcall.fn = "setDynamic"
        => /\ fcall.status = 200
           /\ fcall.ended
           /\ ~fcall.readable => fcall.body = <<>>
           /\ (fcall.readable /\ fcall.threw) => fcall.body = fcall.content

\* a readable file whose first token was substituted before the function of
\* the second one threw
C39_Witness ==
    /\ fcall.fn = "setDynamic"
    /\ fcall.readable
    /\ fcall.threw
    /\ Len(fcall.patterns) = 2
    /\ MatchesSomewhere(fcall.content, Token(fcall.patterns[1].key))
    /\ fcall.body = fcall.content

(***************************************************************************)
(* Properties of the connection pool of the legacy router and of close().  *)
(***************************************************************************)
\* the sockets that have connected and have emitted none of close, error, timeout
Connected ==
    {s \in Sockets : /\ lg.server.sockets[s].state # "none"
                     /\ lg.server.sockets[s].emitted = {}}

\* C37: whatever socket events have occurred, the connection pool holds
\* exactly the sockets that have connected and have not yet emitted close,
\* error or timeout, and no listener failed on a missing pool entry.
C37_PoolExact ==
    /\ lg.connectionpool = Connected
    /\ ~lg.poolFailed

\* one socket timed out and closed, one failed, while another is still open
C37_Witness ==
    /\ \E s \in Sockets :
          lg.server.sockets[s].emitted \in {{"timeout", "close"}, {"error"}}
    /\ \E t \in Sockets : lg.server.sockets[t].state = "open"
    /\ lg.connectionpool # {}

\* the sockets destroyed by the loop of close()
DestroyedByClose == {s \in Sockets : lg.server.sockets[s].by = "close"}

\* once close() was called no socket connects
StopsAccepting ==
    [][lg.closing.pc # "none"
          => \A s \in Sockets : lg.server.sockets[s].state = "none"
                                   => lg'.server.sockets[s].state = "none"]_vars

\* after the loop of a forced close no socket of the pool is open
PoolDestroyed ==
    (lg.closing.force /\ lg.closing.pc = "done")
        => \A s \in lg.connectionpool : lg.server.sockets[s].state = "destroyed"

\* the loop runs after both waits of one second, or after none with instantClose,
\* and never without forceDisconnection
DestroyedInTime ==
    DestroyedByClose # {}
        => /\ lg.closing.force
           /\ lg.closing.pc = "done"
           /\ lg.closing.waited = (IF lg.closing.instant THEN 0 ELSE 2)

\* C35: close with forceDisconnection stops the accepting of connections,
\* then destroys every socket still in the pool, after both waits or at once
\* with instantClose, and its promise resolves afterwards; without
\* forceDisconnection close() destroys no socket.
C35_ForcedClose ==
    /\ StopsAccepting
    /\ [](~lg.server.listening \/ lg.closing.pc = "none")
    /\ []PoolDestroyed
    /\ []DestroyedInTime
    /\ [](lg.closing.resolved
             => \A s \in Sockets : lg.server.sockets[s].state \in {"none", "closed"})
    /\ (lg.closing.force /\ lg.closing.pc = "done") ~> lg.closing.resolved

\* the promise of a forced close resolved after its loop destroyed a socket
C35_Witness ==
    /\ lg.closing.force
    /\ lg.closing.resolved
    /\ DestroyedByClose # {}

====
